---- MODULE Spec2Model ----
(***************************************************************************)
(* Reservation engine of the pool-car server (Supabase-backed version):    *)
(* POST/DELETE /api/bookings, POST/DELETE /api/meeting-bookings and        *)
(* PATCH /api/cars/:id.  Every handler is a chain of store calls separated *)
(* by awaits; one store call together with the synchronous code that       *)
(* follows it is one step.  Instants are integer ticks (scaled-down        *)
(* milliseconds since the epoch), DayLen ticks to a UTC calendar day.      *)
(* The columns user_name, note, title and organizer take part in no        *)
(* decision of the handlers and are left out of the rows.                  *)
(***************************************************************************)
EXTENDS Integers, FiniteSets, Sequences, TLC

\* ---------------------------------------------------------------- bounds
MaxTime == 3
DayLen == 2
MaxId == 2
\* a license is a string of at most MaxLabel characters
MaxLabel == 2

\* ------------------------------------------------------------ primitives
NULL == -1

Times == 0..MaxTime
Days == 0..(MaxTime \div DayLen)

Orgs == {1, 2}
Procs == {1, 2}

\* the one pool car of the catalog; car id 2 names no row
CarIds == {1}
\* extra car 1: organization 1, day 0; extra car 2: organization 2, last day
ExtraCatalog ==
  { [id |-> 1, org_id |-> 1, date |-> 0, license |-> <<"a">>],
    [id |-> 2, org_id |-> 2, date |-> MaxTime \div DayLen, license |-> <<"a">>] }
\* meeting room 1 belongs to organization 1
RoomCatalog == { [id |-> 1, org_id |-> 1] }

NoToken == [userId |-> NULL, orgId |-> NULL, role |-> "none"]

VARIABLES cars, extra_cars, meeting_rooms, bookings, meeting_bookings,
          nextBookingId, nextMeetingId, reqs, version

vars == <<cars, extra_cars, meeting_rooms, bookings, meeting_bookings,
          nextBookingId, nextMeetingId, reqs, version>>

\* ------------------------------------------------------- pure helpers
isOverlap(startA, endA, startB, endB) == startA < endB /\ startB < endA

isoDay(t) == t \div DayLen

\* the first and the last instant (23:59:59.999) of the day of a date string
dayStartIso(dateStr) == dateStr * DayLen
dayEndIso(dateStr) == dateStr * DayLen + (DayLen - 1)

\* a date input is [kind |-> "none" | "date" | "iso", v |-> day or instant]
NoDate == [kind |-> "none", v |-> NULL]
toDayStartIso(d) ==
  IF d.kind = "none" THEN NULL
  ELSE IF d.kind = "iso" THEN d.v
  ELSE d.v * DayLen

toDayEndIso(d) ==
  IF d.kind = "none" THEN NULL
  ELSE IF d.kind = "iso" THEN d.v
  ELSE d.v * DayLen + (DayLen - 1)

\* the Authorization header of a request: auth is "none" (no header, or not a
\* Bearer one), "invalid" (jwt.verify throws) or "bearer" (a verified token);
\* token is the payload the header carries
getUserFromToken(r) == IF r.auth = "bearer" THEN r.token ELSE NoToken

\* ------------------------------------------------------------- requests
NoReq ==
  [orgId |-> NULL, userName |-> NULL, start |-> NULL, end |-> NULL,
   carId |-> NULL, extraCarId |-> NULL, roomId |-> NULL, id |-> NULL,
   status |-> "none", from |-> NoDate, until |-> NoDate,
   date |-> NULL, license |-> <<>>,
   auth |-> "none", token |-> NoToken]

\* resp is the status of the response, body the rows it carries, loc the rows
\* a handler holds between two of its store calls
Idle ==
  [pc |-> "idle", op |-> "none", req |-> NoReq, resp |-> "none",
   body |-> <<>>, loc |-> <<>>]

\* the whole store and the requests in flight, as one value
State ==
  [cars |-> cars, extra_cars |-> extra_cars, meeting_rooms |-> meeting_rooms,
   bookings |-> bookings, meeting_bookings |-> meeting_bookings,
   nextBookingId |-> nextBookingId, nextMeetingId |-> nextMeetingId,
   reqs |-> reqs]

Set(st) ==
  /\ cars' = st.cars
  /\ extra_cars' = st.extra_cars
  /\ meeting_rooms' = st.meeting_rooms
  /\ bookings' = st.bookings
  /\ meeting_bookings' = st.meeting_bookings
  /\ nextBookingId' = st.nextBookingId
  /\ nextMeetingId' = st.nextMeetingId
  /\ reqs' = st.reqs
  /\ version' = version

\* res.status(code).json(...): the request ends with this response
Respond(st, p, code) ==
  [st EXCEPT !.reqs[p].pc = "done", !.reqs[p].resp = code]

\* res.json(rows): the request ends with status code and the rows as its body
RespondWith(st, p, code, rows) ==
  [st EXCEPT !.reqs[p].pc = "done", !.reqs[p].resp = code, !.reqs[p].body = rows]

Goto(st, p, label) == [st EXCEPT !.reqs[p].pc = label]

\* ------------------------------------------- POST /api/bookings
hasPoolCar(r) == r.carId # NULL
hasExtraCar(r) == r.extraCarId # NULL

\* mutant: a request naming both a pool car and an extra car is taken as a pool car
BeginCreateBooking_BothAllowed(st, p, r) ==
  LET base == [st EXCEPT !.reqs[p] =
                 [pc |-> "begin", op |-> "createBooking", req |-> r, resp |-> "none",
                  body |-> <<>>, loc |-> <<>>]]
  IN  IF r.orgId = NULL THEN Respond(base, p, "400 orgId")
      ELSE IF r.userName = NULL \/ r.start = NULL \/ r.end = NULL
        THEN Respond(base, p, "400 required")
      ELSE IF r.end <= r.start THEN Respond(base, p, "400 range")
      ELSE IF ~hasPoolCar(r) /\ ~hasExtraCar(r) THEN Respond(base, p, "400 no selector")
      ELSE IF hasPoolCar(r) THEN Goto(base, p, "carCheck")
      ELSE Goto(base, p, "extraCheck")

\* validation that runs before the first store call
BeginCreateBooking(st, p, r) ==
  LET base == [st EXCEPT !.reqs[p] =
                 [pc |-> "begin", op |-> "createBooking", req |-> r, resp |-> "none",
                  body |-> <<>>, loc |-> <<>>]]
  IN  IF r.orgId = NULL THEN Respond(base, p, "400 orgId")
      ELSE IF r.userName = NULL \/ r.start = NULL \/ r.end = NULL
        THEN Respond(base, p, "400 required")
      ELSE IF r.end <= r.start THEN Respond(base, p, "400 range")
      ELSE IF ~hasPoolCar(r) /\ ~hasExtraCar(r) THEN Respond(base, p, "400 no selector")
      ELSE IF hasPoolCar(r) /\ hasExtraCar(r) THEN Respond(base, p, "400 two selectors")
      ELSE IF hasPoolCar(r) THEN Goto(base, p, "carCheck")
      ELSE Goto(base, p, "extraCheck")

\* mutant: a garage car without a complete window blocks nothing
isGarageForThisRequest_NoWindowFree(carData, startDate, endDate) ==
  LET status == IF carData.status = "null" THEN "ok" ELSE carData.status
  IN  IF status = "garage"
        THEN IF carData.unavailable_from # NULL /\ carData.unavailable_until # NULL
               THEN isOverlap(startDate, endDate,
                              carData.unavailable_from, carData.unavailable_until)
               ELSE FALSE
        ELSE FALSE

\* mutant: a bound that is not set leaves the garage window open on that side
isGarageForThisRequest_HalfOpen(carData, startDate, endDate) ==
  LET status == IF carData.status = "null" THEN "ok" ELSE carData.status
  IN  IF status = "garage"
        THEN /\ (carData.unavailable_until # NULL => startDate < carData.unavailable_until)
             /\ (carData.unavailable_from # NULL => carData.unavailable_from < endDate)
        ELSE FALSE

\* status || "ok", then the garage window against the requested interval
isGarageForThisRequest(carData, startDate, endDate) ==
  LET status == IF carData.status = "null" THEN "ok" ELSE carData.status
  IN  IF status = "garage"
        THEN IF carData.unavailable_from # NULL /\ carData.unavailable_until # NULL
               THEN isOverlap(startDate, endDate,
                              carData.unavailable_from, carData.unavailable_until)
               ELSE TRUE
        ELSE FALSE

\* mutant: a car whose garage window does not touch the request is put back to
\* ok by the car lookup
CarCheck_Releases(st, p, err) ==
  LET r == st.reqs[p].req
  IN  IF err \/ r.carId \notin DOMAIN st.cars
        THEN Respond(st, p, "400 unknown car")
      ELSE IF isGarageForThisRequest(st.cars[r.carId], r.start, r.end)
        THEN Respond(st, p, "409 garage")
      ELSE IF st.cars[r.carId].status = "garage"
        THEN Goto([st EXCEPT !.cars[r.carId] =
                     [status |-> "ok", unavailable_from |-> NULL,
                      unavailable_until |-> NULL]], p, "overlapPool")
      ELSE Goto(st, p, "overlapPool")

\* select from cars where id = carId, single(); then the garage decision
CarCheck(st, p, err) ==
  LET r == st.reqs[p].req
  IN  IF err \/ r.carId \notin DOMAIN st.cars
        THEN Respond(st, p, "400 unknown car")
      ELSE IF isGarageForThisRequest(st.cars[r.carId], r.start, r.end)
        THEN Respond(st, p, "409 garage")
      ELSE Goto(st, p, "overlapPool")

\* mutant: the second bound compared with the end of the request
OverlappingPool_EndTypo(rows, orgIdNum, carIdNum, startDate, endDate) ==
  { b \in rows : /\ b.org_id = orgIdNum
                 /\ b.car_id = carIdNum
                 /\ b.start < endDate
                 /\ b.end > endDate }

\* mutant: the overlap check looks at every car of the organization
OverlappingPool_AnyCar(rows, orgIdNum, carIdNum, startDate, endDate) ==
  { b \in rows : /\ b.org_id = orgIdNum
                 /\ b.start < endDate
                 /\ b.end > startDate }

\* bookings where org_id = org and car_id = car and start < end' and end > start'
OverlappingPool(rows, orgIdNum, carIdNum, startDate, endDate) ==
  { b \in rows : /\ b.org_id = orgIdNum
                 /\ b.car_id = carIdNum
                 /\ b.start < endDate
                 /\ b.end > startDate }

\* mutant: a conflict only from the second overlapping row on
OverlapCheckPool_TwoRows(st, p, err) ==
  LET r == st.reqs[p].req
  IN  IF err THEN Respond(st, p, "500 check")
      ELSE IF Cardinality(OverlappingPool(st.bookings, r.orgId, r.carId,
                                          r.start, r.end)) > 1
        THEN Respond(st, p, "409 booked")
      ELSE Goto(st, p, "insertPool")

OverlapCheckPool(st, p, err) ==
  LET r == st.reqs[p].req
  IN  IF err THEN Respond(st, p, "500 check")
      ELSE IF OverlappingPool(st.bookings, r.orgId, r.carId, r.start, r.end) # {}
        THEN Respond(st, p, "409 booked")
      ELSE Goto(st, p, "insertPool")

\* mutant: the userId of the payload is used without the verification
UserIdOf_Unverified(r) == r.token.userId

\* tokenUser ? tokenUser.userId : null
UserIdOf(r) == IF getUserFromToken(r) # NoToken THEN getUserFromToken(r).userId ELSE NULL

\* mutant: an insert the store refuses sends the request back to its overlap check
InsertPool_Retry(st, p, err) ==
  LET r == st.reqs[p].req
      insertPayload ==
        [id |-> st.nextBookingId, org_id |-> r.orgId, car_id |-> r.carId,
         extra_car_id |-> NULL, user_id |-> UserIdOf(r),
         start |-> r.start, end |-> r.end]
  IN  IF err THEN Goto(st, p, "overlapPool")
      ELSE Respond([st EXCEPT !.bookings = @ \cup {insertPayload},
                              !.nextBookingId = @ + 1], p, "201")

\* mutant: an identified caller books for the organization of the token
InsertPool_CallerOrg(st, p, err) ==
  LET r == st.reqs[p].req
      insertPayload ==
        [id |-> st.nextBookingId,
         org_id |-> IF getUserFromToken(r) # NoToken
                      THEN getUserFromToken(r).orgId ELSE r.orgId,
         car_id |-> r.carId,
         extra_car_id |-> NULL, user_id |-> UserIdOf(r),
         start |-> r.start, end |-> r.end]
  IN  IF err THEN Respond(st, p, "500 insert")
      ELSE Respond([st EXCEPT !.bookings = @ \cup {insertPayload},
                              !.nextBookingId = @ + 1], p, "201")

InsertPool(st, p, err) ==
  LET r == st.reqs[p].req
      insertPayload ==
        [id |-> st.nextBookingId, org_id |-> r.orgId, car_id |-> r.carId,
         extra_car_id |-> NULL, user_id |-> UserIdOf(r),
         start |-> r.start, end |-> r.end]
  IN  IF err THEN Respond(st, p, "500 insert")
      ELSE Respond([st EXCEPT !.bookings = @ \cup {insertPayload},
                              !.nextBookingId = @ + 1], p, "201")

\* mutant: the extra car is looked up without the date filter
ExtraCheck_AnyDay(st, p, err) ==
  LET r == st.reqs[p].req
      extraData == { x \in st.extra_cars : /\ x.id = r.extraCarId
                                           /\ x.org_id = r.orgId }
  IN  IF err \/ Cardinality(extraData) # 1
        THEN Respond(st, p, "400 extra car")
      ELSE Goto(st, p, "overlapExtra")

\* select from extra_cars where id, org_id and date = isoDay(start), single()
ExtraCheck(st, p, err) ==
  LET r == st.reqs[p].req
      startDay == isoDay(r.start)
      extraData == { x \in st.extra_cars : /\ x.id = r.extraCarId
                                           /\ x.org_id = r.orgId
                                           /\ x.date = startDay }
  IN  IF err \/ Cardinality(extraData) # 1
        THEN Respond(st, p, "400 extra car")
      ELSE Goto(st, p, "overlapExtra")

\* mutant: closed intervals, so that touching bookings conflict
OverlappingExtra_Closed(rows, orgIdNum, extraIdNum, startDate, endDate) ==
  { b \in rows : /\ b.org_id = orgIdNum
                 /\ b.extra_car_id = extraIdNum
                 /\ b.start <= endDate
                 /\ b.end >= startDate }

OverlappingExtra(rows, orgIdNum, extraIdNum, startDate, endDate) ==
  { b \in rows : /\ b.org_id = orgIdNum
                 /\ b.extra_car_id = extraIdNum
                 /\ b.start < endDate
                 /\ b.end > startDate }

OverlapCheckExtra(st, p, err) ==
  LET r == st.reqs[p].req
  IN  IF err THEN Respond(st, p, "500 check")
      ELSE IF OverlappingExtra(st.bookings, r.orgId, r.extraCarId, r.start, r.end) # {}
        THEN Respond(st, p, "409 booked")
      ELSE Goto(st, p, "insertExtra")

InsertExtra(st, p, err) ==
  LET r == st.reqs[p].req
      insertPayloadExtra ==
        [id |-> st.nextBookingId, org_id |-> r.orgId, car_id |-> NULL,
         extra_car_id |-> r.extraCarId, user_id |-> UserIdOf(r),
         start |-> r.start, end |-> r.end]
  IN  IF err THEN Respond(st, p, "500 insert")
      ELSE Respond([st EXCEPT !.bookings = @ \cup {insertPayloadExtra},
                              !.nextBookingId = @ + 1], p, "201")

\* ------------------------------------------- DELETE /api/bookings/:id
BeginCancelBooking(st, p, r) ==
  [st EXCEPT !.reqs[p] =
     [pc |-> "fetch", op |-> "cancelBooking", req |-> r, resp |-> "none",
                  body |-> <<>>, loc |-> <<>>]]

\* mutant: || for && in the first check, so that only an owner who is also an
\* admin passes
CancelVerdict_OrForAnd(booking, tokenUser) ==
  IF tokenUser # NoToken
    THEN LET isOwner == booking.user_id = tokenUser.userId
             isAdmin == tokenUser.role = "admin"
             isLegacy == booking.user_id = NULL
         IN  IF ~isOwner \/ ~isAdmin THEN "403 owner"
             ELSE IF isLegacy /\ ~isAdmin THEN "403 legacy"
             ELSE "ok"
    ELSE "ok"

\* mutant: a booking without an owner is anybody's
CancelVerdict_LegacyOpen(booking, tokenUser) ==
  IF tokenUser # NoToken
    THEN LET isOwner == booking.user_id = tokenUser.userId
             isAdmin == tokenUser.role = "admin"
             isLegacy == booking.user_id = NULL
         IN  IF ~isOwner /\ ~isAdmin /\ ~isLegacy THEN "403 owner"
             ELSE "ok"
    ELSE "ok"

\* mutant: the check is made without a token as well
CancelVerdict_TokenRequired(booking, tokenUser) ==
  LET isOwner == tokenUser # NoToken /\ booking.user_id = tokenUser.userId
      isAdmin == tokenUser.role = "admin"
      isLegacy == booking.user_id = NULL
  IN  IF ~isOwner /\ ~isAdmin THEN "403 owner"
      ELSE IF isLegacy /\ ~isAdmin THEN "403 legacy"
      ELSE "ok"

\* mutant: a caller of another organization than the booking is refused
CancelVerdict_SameOrgOnly(booking, tokenUser) ==
  IF tokenUser # NoToken
    THEN LET isOwner == booking.user_id = tokenUser.userId
             isAdmin == tokenUser.role = "admin"
             isLegacy == booking.user_id = NULL
         IN  IF booking.org_id # tokenUser.orgId THEN "403 owner"
             ELSE IF ~isOwner /\ ~isAdmin THEN "403 owner"
             ELSE IF isLegacy /\ ~isAdmin THEN "403 legacy"
             ELSE "ok"
    ELSE "ok"

\* the ownership check, made only when a token is present
CancelVerdict(booking, tokenUser) ==
  IF tokenUser # NoToken
    THEN LET isOwner == booking.user_id = tokenUser.userId
             isAdmin == tokenUser.role = "admin"
             isLegacy == booking.user_id = NULL
         IN  IF ~isOwner /\ ~isAdmin THEN "403 owner"
             ELSE IF isLegacy /\ ~isAdmin THEN "403 legacy"
             ELSE "ok"
    ELSE "ok"

\* mutant: a missing row is not noticed by the fetch
FetchBooking_MissingIsOk(st, p, err) ==
  LET r == st.reqs[p].req
      found == { b \in st.bookings : b.id = r.id }
  IN  IF err THEN Respond(st, p, "404")
      ELSE IF found = {} THEN Goto(st, p, "delete")
      ELSE LET booking == CHOOSE b \in found : TRUE
               verdict == CancelVerdict(booking, getUserFromToken(r))
           IN  IF verdict # "ok" THEN Respond(st, p, verdict)
               ELSE Goto(st, p, "delete")

\* mutant: the row is deleted before the ownership check
FetchBooking_DeleteFirst(st, p, err) ==
  LET r == st.reqs[p].req
      found == { b \in st.bookings : b.id = r.id }
  IN  IF err \/ found = {} THEN Respond(st, p, "404")
      ELSE LET booking == CHOOSE b \in found : TRUE
               verdict == CancelVerdict(booking, getUserFromToken(r))
           IN  IF verdict # "ok"
                 THEN Respond([st EXCEPT !.bookings = @ \ found], p, verdict)
               ELSE Goto(st, p, "delete")

\* select id, user_id, org_id where id = id, single(); then the ownership check
FetchBooking(st, p, err) ==
  LET r == st.reqs[p].req
      found == { b \in st.bookings : b.id = r.id }
  IN  IF err \/ found = {} THEN Respond(st, p, "404")
      ELSE LET booking == CHOOSE b \in found : TRUE
               verdict == CancelVerdict(booking, getUserFromToken(r))
           IN  IF verdict # "ok" THEN Respond(st, p, verdict)
               ELSE Goto(st, p, "delete")

\* mutant: a delete that matches no row is answered as a success
DeleteBooking_MissingIsOk(st, p, err) ==
  LET r == st.reqs[p].req
      found == { b \in st.bookings : b.id = r.id }
  IN  IF err THEN Respond(st, p, "500 delete")
      ELSE RespondWith([st EXCEPT !.bookings = @ \ found], p, "200", <<>>)

\* delete where id = id, select, single(): no row is an error
DeleteBooking(st, p, err) ==
  LET r == st.reqs[p].req
      found == { b \in st.bookings : b.id = r.id }
  IN  IF err \/ found = {} THEN Respond(st, p, "500 delete")
      ELSE LET data == CHOOSE b \in found : TRUE
           IN  RespondWith([st EXCEPT !.bookings = @ \ found], p, "200", <<data>>)

\* ------------------------------------------- POST /api/meeting-bookings
\* mutant: an empty range (end = start) passes the range validation
BeginCreateMeeting_EmptyRange(st, p, r) ==
  LET base == [st EXCEPT !.reqs[p] =
                 [pc |-> "begin", op |-> "createMeeting", req |-> r, resp |-> "none",
                  body |-> <<>>, loc |-> <<>>]]
  IN  IF r.orgId = NULL \/ r.roomId = NULL \/ r.userName = NULL
         \/ r.start = NULL \/ r.end = NULL
        THEN Respond(base, p, "400 required")
      ELSE IF r.end < r.start THEN Respond(base, p, "400 range")
      ELSE Goto(base, p, "roomCheck")

BeginCreateMeeting(st, p, r) ==
  LET base == [st EXCEPT !.reqs[p] =
                 [pc |-> "begin", op |-> "createMeeting", req |-> r, resp |-> "none",
                  body |-> <<>>, loc |-> <<>>]]
  IN  IF r.orgId = NULL \/ r.roomId = NULL \/ r.userName = NULL
         \/ r.start = NULL \/ r.end = NULL
        THEN Respond(base, p, "400 required")
      ELSE IF r.end <= r.start THEN Respond(base, p, "400 range")
      ELSE Goto(base, p, "roomCheck")

\* mutant: only the error of the lookup is looked at, not the missing row
RoomCheck_ErrorOnly(st, p, err) ==
  IF err THEN Respond(st, p, "400 unknown room")
  ELSE Goto(st, p, "overlapRoom")

\* select from meeting_rooms where id = room and org_id = org, single()
RoomCheck(st, p, err) ==
  LET r == st.reqs[p].req
      roomData == { x \in st.meeting_rooms : x.id = r.roomId /\ x.org_id = r.orgId }
  IN  IF err \/ Cardinality(roomData) # 1 THEN Respond(st, p, "400 unknown room")
      ELSE Goto(st, p, "overlapRoom")

\* mutant: only bookings that begin inside the requested window
OverlappingRoom_StartInside(rows, roomIdNum, start, end) ==
  { b \in rows : /\ b.room_id = roomIdNum
                 /\ b.start_time < end
                 /\ b.start_time > start }

\* meeting_bookings where room_id = room and start_time < end and end_time > start
OverlappingRoom(rows, roomIdNum, start, end) ==
  { b \in rows : /\ b.room_id = roomIdNum
                 /\ b.start_time < end
                 /\ b.end_time > start }

\* mutant: only the bookings made by the organization of the caller count
OverlapCheckRoom_OwnOrg(st, p, err) ==
  LET r == st.reqs[p].req
      own == { b \in st.meeting_bookings :
                 b.source_org_id =
                   IF getUserFromToken(r) # NoToken
                     THEN getUserFromToken(r).orgId ELSE r.orgId }
  IN  IF err THEN Respond(st, p, "500 check")
      ELSE IF OverlappingRoom(own, r.roomId, r.start, r.end) # {}
        THEN Respond(st, p, "409 booked")
      ELSE Goto(st, p, "insertRoom")

OverlapCheckRoom(st, p, err) ==
  LET r == st.reqs[p].req
  IN  IF err THEN Respond(st, p, "500 check")
      ELSE IF OverlappingRoom(st.meeting_bookings, r.roomId, r.start, r.end) # {}
        THEN Respond(st, p, "409 booked")
      ELSE Goto(st, p, "insertRoom")

\* mutant: the organization of the request is recorded as the source
SourceOrgOf_Request(r) == r.orgId

\* tokenUser ? tokenUser.orgId : orgId
SourceOrgOf(r) ==
  IF getUserFromToken(r) # NoToken THEN getUserFromToken(r).orgId ELSE r.orgId

InsertRoom(st, p, err) ==
  LET r == st.reqs[p].req
      insertPayload ==
        [id |-> st.nextMeetingId, room_id |-> r.roomId, org_id |-> r.orgId,
         source_org_id |-> SourceOrgOf(r), user_id |-> UserIdOf(r),
         start_time |-> r.start, end_time |-> r.end]
  IN  IF err THEN Respond(st, p, "500 insert")
      ELSE Respond([st EXCEPT !.meeting_bookings = @ \cup {insertPayload},
                              !.nextMeetingId = @ + 1], p, "201")

\* ------------------------------------------- DELETE /api/meeting-bookings/:id
BeginCancelMeeting(st, p, r) ==
  [st EXCEPT !.reqs[p] =
     [pc |-> "fetchMeeting", op |-> "cancelMeeting", req |-> r, resp |-> "none",
                  body |-> <<>>, loc |-> <<>>]]

FetchMeeting(st, p, err) ==
  LET r == st.reqs[p].req
      found == { b \in st.meeting_bookings : b.id = r.id }
  IN  IF err \/ found = {} THEN Respond(st, p, "404")
      ELSE LET booking == CHOOSE b \in found : TRUE
               verdict == CancelVerdict(booking, getUserFromToken(r))
           IN  IF verdict # "ok" THEN Respond(st, p, verdict)
               ELSE Goto(st, p, "deleteMeeting")

DeleteMeeting(st, p, err) ==
  LET r == st.reqs[p].req
      found == { b \in st.meeting_bookings : b.id = r.id }
  IN  IF err \/ found = {} THEN Respond(st, p, "500 delete")
      ELSE LET data == CHOOSE b \in found : TRUE
           IN  RespondWith([st EXCEPT !.meeting_bookings = @ \ found], p, "200",
                           <<data>>)

\* ------------------------------------------- PATCH /api/cars/:id
\* the window written with the status; a bound that is not given is null
UpdatePayload(r) ==
  IF r.from.kind # "none" \/ r.until.kind # "none"
    THEN [status |-> r.status,
          unavailable_from |-> toDayStartIso(r.from),
          unavailable_until |-> toDayEndIso(r.until)]
    ELSE [status |-> r.status, unavailable_from |-> NULL, unavailable_until |-> NULL]

BeginSetMaintenance(st, p, r) ==
  LET base == [st EXCEPT !.reqs[p] =
                 [pc |-> "begin", op |-> "setMaintenance", req |-> r, resp |-> "none",
                  body |-> <<>>, loc |-> <<>>]]
  IN  IF r.status \notin {"ok", "garage"} THEN Respond(base, p, "400 status")
      ELSE Goto(base, p, "updateCar")

\* update cars set ... where id = id, select, single(): no row is an error
UpdateCar(st, p, err) ==
  LET r == st.reqs[p].req
  IN  IF err \/ r.carId \notin DOMAIN st.cars THEN Respond(st, p, "500 update")
      ELSE Respond([st EXCEPT !.cars[r.carId] = UpdatePayload(r)], p, "200")

\* ------------------------------------------- GET /api/cars/availability
\* the rows of S in ascending order of id
RECURSIVE OrderById(_)
OrderById(S) ==
  IF S = {} THEN <<>>
  ELSE LET x == CHOOSE y \in S : \A z \in S : y.id <= z.id
       IN  <<x>> \o OrderById(S \ {x})

\* the rows of the cars table, each with its id
CarRows(st) ==
  { [id |-> c, status |-> st.cars[c].status,
     unavailable_from |-> st.cars[c].unavailable_from,
     unavailable_until |-> st.cars[c].unavailable_until] : c \in DOMAIN st.cars }

BeginAvailability(st, p, r) ==
  LET base == [st EXCEPT !.reqs[p] =
                 [pc |-> "begin", op |-> "availability", req |-> r, resp |-> "none",
                  body |-> <<>>, loc |-> <<>>]]
  IN  IF r.start = NULL \/ r.end = NULL \/ r.orgId = NULL
        THEN Respond(base, p, "400 required")
      ELSE Goto(base, p, "availCars")

\* mutant: a car whose garage window does not touch the request is put back
\* to ok while the cars are read
AvailCars_Releases(st, p, err) ==
  LET r == st.reqs[p].req
      released ==
        [c \in DOMAIN st.cars |->
           IF st.cars[c].status = "garage"
              /\ ~isGarageForThisRequest(st.cars[c], r.start, r.end)
             THEN [status |-> "ok", unavailable_from |-> NULL,
                   unavailable_until |-> NULL]
             ELSE st.cars[c]]
      st2 == [st EXCEPT !.cars = released]
  IN  IF err THEN Respond(st, p, "500 cars")
      ELSE Goto([st2 EXCEPT !.reqs[p].loc = OrderById(CarRows(st2))], p, "availExtra")

\* 1) select from cars order by id
AvailCars(st, p, err) ==
  IF err THEN Respond(st, p, "500 cars")
  ELSE Goto([st EXCEPT !.reqs[p].loc = OrderById(CarRows(st))], p, "availExtra")

\* the verdict of a pool car: garage decision and bookings of that car
\* mutant: || for && in available
PoolVerdict_OrForAnd(car, rows, startDate, endDate) ==
  LET status == IF car.status = "null" THEN "ok" ELSE car.status
      conflict == \E b \in rows : /\ b.car_id = car.id
                                   /\ isOverlap(startDate, endDate, b.start, b.end)
  IN  [type |-> "pool", id |-> car.id, status |-> status,
       unavailableFrom |-> car.unavailable_from,
       unavailableUntil |-> car.unavailable_until,
       available |-> ~isGarageForThisRequest(car, startDate, endDate) \/ ~conflict]

PoolVerdict(car, rows, startDate, endDate) ==
  LET status == IF car.status = "null" THEN "ok" ELSE car.status
      conflict == \E b \in rows : /\ b.car_id = car.id
                                   /\ isOverlap(startDate, endDate, b.start, b.end)
  IN  [type |-> "pool", id |-> car.id, status |-> status,
       unavailableFrom |-> car.unavailable_from,
       unavailableUntil |-> car.unavailable_until,
       available |-> ~isGarageForThisRequest(car, startDate, endDate) /\ ~conflict]

\* mutant: a booking that only touches the window counts as a conflict
ExtraVerdict_Closed(c, rows, startDate, endDate) ==
  LET conflict == \E b \in rows : /\ b.extra_car_id = c.id
                                   /\ startDate <= b.end /\ b.start <= endDate
  IN  [type |-> "extra", id |-> c.id, status |-> "ok",
       unavailableFrom |-> NULL, unavailableUntil |-> NULL,
       available |-> ~conflict]

ExtraVerdict(c, rows, startDate, endDate) ==
  LET conflict == \E b \in rows : /\ b.extra_car_id = c.id
                                   /\ isOverlap(startDate, endDate, b.start, b.end)
  IN  [type |-> "extra", id |-> c.id, status |-> "ok",
       unavailableFrom |-> NULL, unavailableUntil |-> NULL,
       available |-> ~conflict]

\* mutant: the extra cars of the organization on any day
AvailExtra_AnyDay(st, p, err) ==
  LET r == st.reqs[p].req
      extraCarsData == { x \in st.extra_cars : x.org_id = r.orgId }
  IN  IF err THEN Respond(st, p, "500 extra cars")
      ELSE Goto([st EXCEPT !.reqs[p].loc =
                   <<st.reqs[p].loc, OrderById(extraCarsData)>>], p, "availBookings")

\* 2) select from extra_cars where org_id = org and date = isoDay(start)
AvailExtra(st, p, err) ==
  LET r == st.reqs[p].req
      day == isoDay(r.start)
      extraCarsData == { x \in st.extra_cars : x.org_id = r.orgId /\ x.date = day }
  IN  IF err THEN Respond(st, p, "500 extra cars")
      ELSE Goto([st EXCEPT !.reqs[p].loc =
                   <<st.reqs[p].loc, OrderById(extraCarsData)>>], p, "availBookings")

\* 3) select from bookings where org_id = org; then one verdict per car read
AvailBookings(st, p, err) ==
  LET r == st.reqs[p].req
      carsData == st.reqs[p].loc[1]
      extraCarsData == st.reqs[p].loc[2]
      bookingsData == { b \in st.bookings : b.org_id = r.orgId }
      result ==
        [i \in 1..Len(carsData) |->
           PoolVerdict(carsData[i], bookingsData, r.start, r.end)]
        \o [i \in 1..Len(extraCarsData) |->
              ExtraVerdict(extraCarsData[i], bookingsData, r.start, r.end)]
  IN  IF err THEN Respond(st, p, "500 bookings")
      ELSE RespondWith([st EXCEPT !.reqs[p].loc = <<>>], p, "200", result)

\* ------------------------------------------- GET /api/bookings
\* .order("start", { ascending: true }); rows with the same start are taken in
\* the order of their ids
RECURSIVE OrderByStart(_)
OrderByStart(S) ==
  IF S = {} THEN <<>>
  ELSE LET x == CHOOSE y \in S :
                  \A z \in S : y.start < z.start \/ (y.start = z.start /\ y.id <= z.id)
       IN  <<x>> \o OrderByStart(S \ {x})

\* snake_case to camelCase
Normalized(b) ==
  [id |-> b.id, orgId |-> b.org_id, carId |-> b.car_id,
   extraCarId |-> b.extra_car_id, userId |-> b.user_id,
   start |-> b.start, end |-> b.end]

BeginListBookings(st, p, r) ==
  LET base == [st EXCEPT !.reqs[p] =
                 [pc |-> "begin", op |-> "listBookings", req |-> r, resp |-> "none",
                  body |-> <<>>, loc |-> <<>>]]
  IN  IF r.orgId = NULL THEN Respond(base, p, "400 orgId")
      ELSE Goto(base, p, "listBookings")

\* select * where org_id = org [and start >= dayStart and start < dayEnd]
ListBookings(st, p, err) ==
  LET r == st.reqs[p].req
      data == { b \in st.bookings :
                  /\ b.org_id = r.orgId
                  /\ r.date # NULL =>
                       (b.start >= dayStartIso(r.date) /\ b.start < dayEndIso(r.date)) }
      rows == OrderByStart(data)
  IN  IF err THEN Respond(st, p, "500 list")
      ELSE RespondWith(st, p, "200", [i \in 1..Len(rows) |-> Normalized(rows[i])])

\* ------------------------------------------- POST /api/extra-cars
\* String.prototype.trim: the string without its leading and trailing blanks
RECURSIVE TrimStart(_)
TrimStart(s) ==
  IF s = <<>> THEN s
  ELSE IF Head(s) = " " THEN TrimStart(Tail(s)) ELSE s

RECURSIVE TrimEnd(_)
TrimEnd(s) ==
  IF s = <<>> THEN s
  ELSE IF s[Len(s)] = " " THEN TrimEnd(SubSeq(s, 1, Len(s) - 1)) ELSE s

Trim(s) == TrimEnd(TrimStart(s))

\* the id the store gives to a new extra car: extra cars are never deleted
NextExtraId(st) ==
  LET ids == { x.id : x \in st.extra_cars }
  IN  IF ids = {} THEN 1 ELSE (CHOOSE i \in ids : \A j \in ids : j <= i) + 1

\* today is the day of the clock when the request arrives; d = date || today is
\* held in loc until the insert. The requests drawn carry no name.
BeginCreateExtraCar(st, p, r, today) ==
  LET base == [st EXCEPT !.reqs[p] =
                 [pc |-> "begin", op |-> "createExtraCar", req |-> r, resp |-> "none",
                  body |-> <<>>, loc |-> <<>>]]
      d == IF r.date # NULL THEN r.date ELSE today
  IN  IF r.orgId = NULL THEN Respond(base, p, "400 orgId")
      ELSE IF r.license = <<>> THEN Respond(base, p, "400 license")
      ELSE Goto([base EXCEPT !.reqs[p].loc = <<d>>], p, "insertExtraCar")

\* mutant: a car with the same organization, day and license is not stored twice
InsertExtraCar_Dedup(st, p, err) ==
  LET r == st.reqs[p].req
      payload == [id |-> NextExtraId(st), org_id |-> r.orgId,
                  license |-> Trim(r.license), date |-> st.reqs[p].loc[1]]
      same == { x \in st.extra_cars : /\ x.org_id = payload.org_id
                                      /\ x.date = payload.date
                                      /\ x.license = payload.license }
      st2 == [st EXCEPT !.reqs[p].loc = <<>>]
  IN  IF err THEN Respond(st2, p, "500 insert")
      ELSE IF same # {} THEN RespondWith(st2, p, "201", OrderById(same))
      ELSE RespondWith([st2 EXCEPT !.extra_cars = @ \cup {payload}], p, "201",
                       <<payload>>)

\* insert into extra_cars, select, single()
InsertExtraCar(st, p, err) ==
  LET r == st.reqs[p].req
      payload == [id |-> NextExtraId(st), org_id |-> r.orgId,
                  license |-> Trim(r.license), date |-> st.reqs[p].loc[1]]
      st2 == [st EXCEPT !.reqs[p].loc = <<>>]
  IN  IF err THEN Respond(st2, p, "500 insert")
      ELSE RespondWith([st2 EXCEPT !.extra_cars = @ \cup {payload}], p, "201",
                       <<payload>>)

\* ------------------------------------------- one step, and a whole request
InFlight(st, p) == st.reqs[p].pc \notin {"idle", "done"}

Step(st, p, err) ==
  LET pc == st.reqs[p].pc
  IN  CASE pc = "carCheck" -> CarCheck(st, p, err)
        [] pc = "overlapPool" -> OverlapCheckPool(st, p, err)
        [] pc = "insertPool" -> InsertPool(st, p, err)
        [] pc = "extraCheck" -> ExtraCheck(st, p, err)
        [] pc = "overlapExtra" -> OverlapCheckExtra(st, p, err)
        [] pc = "insertExtra" -> InsertExtra(st, p, err)
        [] pc = "fetch" -> FetchBooking(st, p, err)
        [] pc = "delete" -> DeleteBooking(st, p, err)
        [] pc = "roomCheck" -> RoomCheck(st, p, err)
        [] pc = "overlapRoom" -> OverlapCheckRoom(st, p, err)
        [] pc = "insertRoom" -> InsertRoom(st, p, err)
        [] pc = "fetchMeeting" -> FetchMeeting(st, p, err)
        [] pc = "deleteMeeting" -> DeleteMeeting(st, p, err)
        [] pc = "updateCar" -> UpdateCar(st, p, err)
        [] pc = "listBookings" -> ListBookings(st, p, err)
        [] pc = "insertExtraCar" -> InsertExtraCar(st, p, err)
        [] pc = "availCars" -> AvailCars(st, p, err)
        [] pc = "availExtra" -> AvailExtra(st, p, err)
        [] pc = "availBookings" -> AvailBookings(st, p, err)
        [] OTHER -> st

\* the request of p run to its response with no other request in between
RECURSIVE Run(_, _)
Run(st, p) == IF InFlight(st, p) THEN Run(Step(st, p, FALSE), p) ELSE st

\* the locals of a finished request are dropped; its header and its response stay
Forget(st, p) ==
  [st EXCEPT !.reqs[p].req =
     [NoReq EXCEPT !.auth = st.reqs[p].req.auth, !.token = st.reqs[p].req.token]]

\* ------------------------------------------- requests drawn by the model
CarOk == [status |-> "ok", unavailable_from |-> NULL, unavailable_until |-> NULL]

\* (carId, extraCarId) of a request: none, a pool car, an extra car, both
Selectors == { <<NULL, NULL>>, <<1, NULL>>, <<2, NULL>>,
               <<NULL, 1>>, <<NULL, 2>>, <<1, 1>> }

BookingReq(o, s, e, sel) ==
  [NoReq EXCEPT !.orgId = o, !.userName = 1, !.start = s, !.end = e,
                !.carId = sel[1], !.extraCarId = sel[2]]

BookingReqs ==
  { BookingReq(o, s, e, sel) : o \in Orgs, s \in Times, e \in Times, sel \in Selectors }

MeetingReq(o, s, e, m) ==
  [NoReq EXCEPT !.orgId = o, !.userName = 1, !.start = s, !.end = e, !.roomId = m]

MeetingReqs ==
  { MeetingReq(o, s, e, m) : o \in Orgs, s \in Times, e \in Times, m \in {NULL, 1} }

CancelReqs == { [NoReq EXCEPT !.id = i] : i \in 1..MaxId }

Init ==
  /\ cars = [c \in CarIds |-> CarOk]
  /\ extra_cars = ExtraCatalog
  /\ meeting_rooms = RoomCatalog
  /\ bookings = {}
  /\ meeting_bookings = {}
  /\ nextBookingId = 1
  /\ nextMeetingId = 1
  /\ reqs = [p \in Procs |-> Idle]
  /\ version = "part_003"

\* no request is between two of its store calls
Quiet == \A q \in Procs : ~InFlight(State, q)

\* the model stops inserting after MaxId rows
RoomForInsert == nextBookingId + nextMeetingId <= MaxId + 1

\* ------------------------------------------- requests one at a time
DoCreateBooking(r) ==
  /\ Quiet
  /\ RoomForInsert
  /\ Set(Forget(Run(BeginCreateBooking(State, 1, r), 1), 1))

DoCancelBooking(r) ==
  /\ Quiet
  /\ Set(Forget(Run(BeginCancelBooking(State, 1, r), 1), 1))

DoCreateMeeting(r) ==
  /\ Quiet
  /\ RoomForInsert
  /\ Set(Forget(Run(BeginCreateMeeting(State, 1, r), 1), 1))

DoCancelMeeting(r) ==
  /\ Quiet
  /\ Set(Forget(Run(BeginCancelMeeting(State, 1, r), 1), 1))

DoSetMaintenance(r) ==
  /\ Quiet
  /\ Set(Forget(Run(BeginSetMaintenance(State, 1, r), 1), 1))

Next ==
  \/ \E r \in BookingReqs : DoCreateBooking(r)
  \/ \E r \in CancelReqs : DoCancelBooking(r)
  \/ \E r \in MeetingReqs : DoCreateMeeting(r)
  \/ \E r \in CancelReqs : DoCancelMeeting(r)

Spec == Init /\ [][Next]_vars

\* ------------------------------------------- bookings and maintenance
CarNoStatus ==
  [status |-> "null", unavailable_from |-> NULL, unavailable_until |-> NULL]

DateInputs ==
  {NoDate} \cup { [kind |-> "date", v |-> d] : d \in Days }
           \cup { [kind |-> "iso", v |-> t] : t \in Times }

MaintenanceReq(c, status, f, u) ==
  [NoReq EXCEPT !.carId = c, !.status = status, !.from = f, !.until = u]

\* car 1 with every window; one request with an unknown status, one for car 2
MaintenanceReqs ==
  { MaintenanceReq(1, status, f, u) :
      status \in {"ok", "garage"}, f \in DateInputs, u \in DateInputs }
  \cup { MaintenanceReq(1, "other", NoDate, NoDate),
         MaintenanceReq(2, "garage", NoDate, NoDate) }

PoolReqs ==
  { BookingReq(1, s, e, <<c, NULL>>) : s \in Times, e \in Times, c \in {1, 2} }

InitMaint ==
  /\ cars \in [CarIds -> {CarOk, CarNoStatus}]
  /\ extra_cars = ExtraCatalog
  /\ meeting_rooms = RoomCatalog
  /\ bookings = {}
  /\ meeting_bookings = {}
  /\ nextBookingId = 1
  /\ nextMeetingId = 1
  /\ reqs = [p \in Procs |-> Idle]
  /\ version = "part_003"

NextMaint ==
  \/ \E r \in PoolReqs : DoCreateBooking(r)
  \/ \E r \in CancelReqs : DoCancelBooking(r)
  \/ \E r \in MaintenanceReqs : DoSetMaintenance(r)

SpecMaint == InitMaint /\ [][NextMaint]_vars

\* ------------------------------------------- availability queries
AvailabilityReq(o, s, e) == [NoReq EXCEPT !.orgId = o, !.start = s, !.end = e]

\* every window for both organizations, and one query without its end
AvailabilityReqs ==
  { AvailabilityReq(o, s, e) : o \in Orgs, s \in Times, e \in Times }
  \cup { AvailabilityReq(1, 0, NULL) }

\* the query stays with the response it got
DoAvailability(r) ==
  /\ Quiet
  /\ Set(Run(BeginAvailability(State, 1, r), 1))

\* valid windows on pool car 1 and on the extra car of organization 1
AvailBookingReqs ==
  { r \in BookingReqs : r.start < r.end /\ (r.carId = 1) # (r.extraCarId = 1) }

\* car 1 to ok or to the garage: without a window, for one day, from a day on
AvailMaintenanceReqs ==
  { r \in MaintenanceReqs :
      /\ r.carId = 1
      /\ r.status \in {"ok", "garage"}
      /\ \/ r.from = NoDate /\ r.until = NoDate
         \/ r.from.kind = "date" /\ r.until = r.from
         \/ r.from = [kind |-> "date", v |-> 0] /\ r.until = NoDate }

NextAvail ==
  \/ \E r \in AvailBookingReqs : DoCreateBooking(r)
  \/ \E r \in AvailMaintenanceReqs : DoSetMaintenance(r)
  \/ \E r \in AvailabilityReqs : DoAvailability(r)

SpecAvail == Init /\ [][NextAvail]_vars

\* ------------------------------------------- listing the bookings
ListReq(o, d) == [NoReq EXCEPT !.orgId = o, !.date = d]

\* both organizations, every day and no day; one query without orgId
ListReqs ==
  { ListReq(o, d) : o \in Orgs, d \in Days \cup {NULL} } \cup { ListReq(NULL, 0) }

\* the query stays with the response it got
DoListBookings(r) ==
  /\ Quiet
  /\ Set(Run(BeginListBookings(State, 1, r), 1))

NextList ==
  \/ \E r \in AvailBookingReqs : DoCreateBooking(r)
  \/ \E r \in CancelReqs : DoCancelBooking(r)
  \/ \E r \in ListReqs : DoListBookings(r)

SpecList == Init /\ [][NextList]_vars

\* ------------------------------------------- callers with and without a token
\* users 1 and 2 are members and user 3 is the admin of organization 1
Member(u) == [userId |-> u, orgId |-> 1, role |-> "member"]
Admin == [userId |-> 3, orgId |-> 1, role |-> "admin"]

\* no header, a token that fails verification (it claims to be the admin), and
\* the verified tokens of the three users
Headers ==
  { <<"none", NoToken>>, <<"invalid", Admin>>,
    <<"bearer", Member(1)>>, <<"bearer", Member(2)>>, <<"bearer", Admin>> }

WithHeader(r, h) == [r EXCEPT !.auth = h[1], !.token = h[2]]

AuthBookingReqs ==
  { WithHeader(BookingReq(1, s, e, <<1, NULL>>), h) :
      s \in Times, e \in Times, h \in Headers }

AuthMeetingReqs ==
  { WithHeader(MeetingReq(1, s, e, 1), h) : s \in Times, e \in Times, h \in Headers }

AuthCancelReqs ==
  { WithHeader([NoReq EXCEPT !.id = i], h) : i \in 1..MaxId, h \in Headers }

NextAuth ==
  \/ \E r \in AuthBookingReqs : DoCreateBooking(r)
  \/ \E r \in AuthCancelReqs : DoCancelBooking(r)
  \/ \E r \in AuthMeetingReqs : DoCreateMeeting(r)
  \/ \E r \in AuthCancelReqs : DoCancelMeeting(r)

SpecAuth == Init /\ [][NextAuth]_vars

\* ------------------------------------------- maintenance by any caller
AdminMaintenanceReqs ==
  { WithHeader(r, h) : r \in AvailMaintenanceReqs, h \in Headers }

NextAdmin ==
  \/ \E r \in AdminMaintenanceReqs : DoSetMaintenance(r)
  \/ \E r \in PoolReqs : DoCreateBooking(r)

SpecAdmin == Init /\ [][NextAdmin]_vars

\* ------------------------------------------- rooms shared by organizations
\* organizations.meeting_org_id || id: organization 2 uses the rooms of
\* organization 1
MeetingOrgOf(o) == IF o = 2 THEN 1 ELSE o

\* user 4 is a member of organization 2
Member2 == [userId |-> 4, orgId |-> 2, role |-> "member"]

RoomHeaders ==
  { <<"none", NoToken>>, <<"bearer", Member(1)>>, <<"bearer", Member2>> }

\* room 1 and room 2 (which does not exist), named with either organization
RoomReqs ==
  { WithHeader(MeetingReq(o, s, e, m), h) :
      o \in Orgs, s \in Times, e \in Times, m \in {1, 2}, h \in RoomHeaders }

NextRoom ==
  \/ \E r \in RoomReqs : DoCreateMeeting(r)
  \/ \E r \in CancelReqs : DoCancelMeeting(r)

SpecRoom == Init /\ [][NextRoom]_vars

\* ------------------------------------------- two create requests at once
RaceReqs ==
  { BookingReq(o, s, e, sel) :
      o \in Orgs, s \in Times, e \in Times, sel \in { <<1, NULL>>, <<NULL, 1>> } }

StartCreateBooking(p, r) ==
  /\ reqs[p].pc = "idle"
  /\ Set(BeginCreateBooking(State, p, r))

DoCarCheck(p) ==
  /\ reqs[p].pc = "carCheck"
  /\ Set(CarCheck(State, p, FALSE))

DoOverlapCheckPool(p) ==
  /\ reqs[p].pc = "overlapPool"
  /\ Set(OverlapCheckPool(State, p, FALSE))

DoInsertPool(p) ==
  /\ reqs[p].pc = "insertPool"
  /\ Set(InsertPool(State, p, FALSE))

DoExtraCheck(p) ==
  /\ reqs[p].pc = "extraCheck"
  /\ Set(ExtraCheck(State, p, FALSE))

DoOverlapCheckExtra(p) ==
  /\ reqs[p].pc = "overlapExtra"
  /\ Set(OverlapCheckExtra(State, p, FALSE))

DoInsertExtra(p) ==
  /\ reqs[p].pc = "insertExtra"
  /\ Set(InsertExtra(State, p, FALSE))

NextRace ==
  \/ \E p \in Procs, r \in RaceReqs : StartCreateBooking(p, r)
  \/ \E p \in Procs : DoCarCheck(p)
  \/ \E p \in Procs : DoOverlapCheckPool(p)
  \/ \E p \in Procs : DoInsertPool(p)
  \/ \E p \in Procs : DoExtraCheck(p)
  \/ \E p \in Procs : DoOverlapCheckExtra(p)
  \/ \E p \in Procs : DoInsertExtra(p)

SpecRace == Init /\ [][NextRace]_vars

\* ------------------------------------------- extra cars of a day
\* the strings of at most n characters, each a blank or a letter
RECURSIVE Strings(_)
Strings(n) ==
  IF n = 0 THEN { <<>> }
  ELSE Strings(n - 1) \cup
       { Append(s, c) : s \in { t \in Strings(n - 1) : Len(t) = n - 1 }, c \in {" ", "a"} }

Labels == Strings(MaxLabel)

ExtraCarReq(o, l, d) == [NoReq EXCEPT !.orgId = o, !.license = l, !.date = d]

ExtraCarReqs ==
  { ExtraCarReq(o, l, d) : o \in Orgs \cup {NULL}, l \in Labels, d \in Days \cup {NULL} }

\* the model stops adding extra cars after MaxId of them
RoomForExtraCar == Cardinality(extra_cars) < Cardinality(ExtraCatalog) + MaxId

DoCreateExtraCar(r, today) ==
  /\ Quiet
  /\ RoomForExtraCar
  /\ Set(Forget(Run(BeginCreateExtraCar(State, 1, r, today), 1), 1))

\* a booking of the first day on the first car that was added
NewCarBookingReqs ==
  { BookingReq(o, 0, 1, <<NULL, Cardinality(ExtraCatalog) + 1>>) : o \in Orgs }

NextExtra ==
  \/ \E r \in ExtraCarReqs, today \in Days : DoCreateExtraCar(r, today)
  \/ \E r \in NewCarBookingReqs : DoCreateBooking(r)

SpecExtra == Init /\ [][NextExtra]_vars

\* ------------------------------------------- creates at once, then cancels
\* two creates that may interleave, and whole creates and cancels when no
\* request is under way
NextRebook ==
  \/ NextRace
  \/ \E r \in RaceReqs : DoCreateBooking(r)
  \/ \E r \in CancelReqs : DoCancelBooking(r)

SpecRebook == Init /\ [][NextRebook]_vars

\* ------------------------------------------- two cancels at once
\* whole creates while no request is under way; cancels of two clients whose
\* store calls interleave
CancelRaceBookingReqs ==
  { BookingReq(o, s, e, <<1, NULL>>) : o \in Orgs, s \in Times, e \in Times }

CancelRaceMeetingReqs ==
  { MeetingReq(1, s, e, 1) : s \in Times, e \in Times }

StartCancelBooking(p, r) ==
  /\ ~InFlight(State, p)
  /\ Set(BeginCancelBooking(State, p, r))

DoFetchBooking(p) ==
  /\ reqs[p].pc = "fetch"
  /\ Set(FetchBooking(State, p, FALSE))

DoDeleteBooking(p) ==
  /\ reqs[p].pc = "delete"
  /\ Set(DeleteBooking(State, p, FALSE))

StartCancelMeeting(p, r) ==
  /\ ~InFlight(State, p)
  /\ Set(BeginCancelMeeting(State, p, r))

DoFetchMeeting(p) ==
  /\ reqs[p].pc = "fetchMeeting"
  /\ Set(FetchMeeting(State, p, FALSE))

DoDeleteMeeting(p) ==
  /\ reqs[p].pc = "deleteMeeting"
  /\ Set(DeleteMeeting(State, p, FALSE))

NextCancelRace ==
  \/ \E r \in CancelRaceBookingReqs : DoCreateBooking(r)
  \/ \E r \in CancelRaceMeetingReqs : DoCreateMeeting(r)
  \/ \E p \in Procs, r \in CancelReqs : StartCancelBooking(p, r)
  \/ \E p \in Procs : DoFetchBooking(p)
  \/ \E p \in Procs : DoDeleteBooking(p)
  \/ \E p \in Procs, r \in CancelReqs : StartCancelMeeting(p, r)
  \/ \E p \in Procs : DoFetchMeeting(p)
  \/ \E p \in Procs : DoDeleteMeeting(p)

SpecCancelRace == Init /\ [][NextCancelRace]_vars

\* ------------------------------------------- callers of two organizations
Admin2 == [userId |-> 5, orgId |-> 2, role |-> "admin"]

\* no header, and the verified tokens of a member and an admin of each
\* organization
CrossHeaders ==
  { <<"none", NoToken>>, <<"bearer", Member(1)>>, <<"bearer", Admin>>,
    <<"bearer", Member2>>, <<"bearer", Admin2>> }

CrossBookingReqs ==
  { WithHeader(BookingReq(o, s, e, <<1, NULL>>), h) :
      o \in Orgs, s \in Times, e \in Times, h \in CrossHeaders }

CrossMeetingReqs ==
  { WithHeader(MeetingReq(1, s, e, 1), h) :
      s \in Times, e \in Times, h \in CrossHeaders }

CrossCancelReqs ==
  { WithHeader([NoReq EXCEPT !.id = i], h) : i \in 1..MaxId, h \in CrossHeaders }

NextCross ==
  \/ \E r \in CrossBookingReqs : DoCreateBooking(r)
  \/ \E r \in CrossCancelReqs : DoCancelBooking(r)
  \/ \E r \in CrossMeetingReqs : DoCreateMeeting(r)
  \/ \E r \in CrossCancelReqs : DoCancelMeeting(r)

SpecCross == Init /\ [][NextCross]_vars

\* ------------------------------------------- the versions before the database
\* version names the server that runs: part_003 is the one with the database,
\* part_000 keeps the bookings in an array saved to a file and lets the user
\* choose the car, server.js does the same and assigns the car itself,
\* part_001 assigns the car and keeps the array in memory only. In these
\* versions bookings is the array, in the order of the pushes, and a handler
\* runs from its first line to its response without a pause.
OlderVersions == {"part_000", "server.js", "part_001"}

\* the first cars of the catalog, a constant of each version
MemCars == {1, 2}

MemRow(i, o, c, s, e) == [id |-> i, orgId |-> o, carId |-> c, start |-> s, end |-> e]

\* bookings.some(b => b.orgId === org && b.carId === car && isOverlap(...))
MemConflict(rows, o, c, s, e) ==
  \E i \in 1..Len(rows) :
     /\ rows[i].orgId = o
     /\ rows[i].carId = c
     /\ isOverlap(s, e, rows[i].start, rows[i].end)

\* the first car, in the order of the catalog, with no overlapping booking
findAvailableCar(rows, s, e) ==
  LET free == { c \in MemCars :
                  ~\E i \in 1..Len(rows) :
                      rows[i].carId = c /\ isOverlap(s, e, rows[i].start, rows[i].end) }
  IN  IF free = {} THEN NULL ELSE CHOOSE c \in free : \A d \in free : c <= d

\* mutant: the next id is the number of bookings in the file plus one
loadBookings_Count(rows) == Len(rows) + 1

\* nextBookingId after loadBookings in a new process: 1, or the largest id of
\* the file plus one
loadBookings(rows) ==
  IF rows = <<>> THEN 1
  ELSE LET ids == { rows[i].id : i \in 1..Len(rows) }
       IN  (CHOOSE m \in ids : \A j \in ids : j <= m) + 1

MemRespond(op, code) ==
  reqs' = [reqs EXCEPT ![1] = [Idle EXCEPT !.pc = "done", !.op = op, !.resp = code]]

MemStore(rows, next) ==
  /\ bookings' = rows
  /\ nextBookingId' = next
  /\ UNCHANGED <<cars, extra_cars, meeting_rooms, meeting_bookings, nextMeetingId, version>>

\* POST /api/bookings of part_000: the response to r
ChosenCarResp(r) ==
  IF r.orgId = NULL THEN "400 orgId"
  ELSE IF r.userName = NULL \/ r.start = NULL \/ r.end = NULL THEN "400 required"
  ELSE IF r.carId = NULL THEN "400 carId"
  ELSE IF r.carId \notin MemCars THEN "400 unknown car"
  ELSE IF r.end <= r.start THEN "400 range"
  ELSE IF MemConflict(bookings, r.orgId, r.carId, r.start, r.end) THEN "409 booked"
  ELSE "201"

PostBookingChosenCar(r) ==
  /\ version = "part_000"
  /\ ChosenCarResp(r) = "201" => nextBookingId <= MaxId
  /\ MemRespond("createBooking", ChosenCarResp(r))
  /\ IF ChosenCarResp(r) = "201"
        THEN MemStore(Append(bookings,
                             MemRow(nextBookingId, r.orgId, r.carId, r.start, r.end)),
                      nextBookingId + 1)
        ELSE MemStore(bookings, nextBookingId)

\* POST /api/bookings of server.js and part_001: the response to r
AutoCarResp(r) ==
  IF r.userName = NULL \/ r.start = NULL \/ r.end = NULL THEN "400 required"
  ELSE IF r.end <= r.start THEN "400 range"
  ELSE IF findAvailableCar(bookings, r.start, r.end) = NULL THEN "409 no car"
  ELSE "201"

PostBookingAutoCar(r) ==
  /\ version \in {"server.js", "part_001"}
  /\ AutoCarResp(r) = "201" => nextBookingId <= MaxId
  /\ MemRespond("createBooking", AutoCarResp(r))
  /\ IF AutoCarResp(r) = "201"
        THEN MemStore(Append(bookings,
                             MemRow(nextBookingId, NULL,
                                    findAvailableCar(bookings, r.start, r.end),
                                    r.start, r.end)),
                      nextBookingId + 1)
        ELSE MemStore(bookings, nextBookingId)

\* DELETE /api/bookings/:id of part_000 and server.js: findIndex, splice
DeleteMemBooking(id) ==
  /\ version \in {"part_000", "server.js"}
  /\ LET index == { i \in 1..Len(bookings) : bookings[i].id = id }
     IN  IF index = {}
           THEN MemRespond("cancelBooking", "404") /\ MemStore(bookings, nextBookingId)
           ELSE LET k == CHOOSE i \in index : \A j \in index : i <= j
                IN  /\ MemRespond("cancelBooking", "200")
                    /\ MemStore([i \in 1..(Len(bookings) - 1) |->
                                   IF i < k THEN bookings[i] ELSE bookings[i + 1]],
                                nextBookingId)

\* the server is started again: the file versions load what they saved, the
\* memory version starts empty
Restart ==
  /\ version \in OlderVersions
  /\ reqs' = [reqs EXCEPT ![1] = Idle]
  /\ IF version = "part_001"
        THEN MemStore(<<>>, 1)
        ELSE MemStore(bookings, loadBookings(bookings))

MemReqs ==
  { BookingReq(o, s, e, <<c, NULL>>) :
      o \in Orgs, s \in Times, e \in Times, c \in {NULL, 1, 2, 3} }

InitMem ==
  /\ cars = [c \in CarIds |-> CarOk]
  /\ extra_cars = {}
  /\ meeting_rooms = {}
  /\ bookings = <<>>
  /\ meeting_bookings = {}
  /\ nextBookingId = 1
  /\ nextMeetingId = 1
  /\ reqs = [p \in Procs |-> Idle]
  /\ version \in OlderVersions

NextMem ==
  \/ \E r \in MemReqs : PostBookingChosenCar(r)
  \/ \E r \in MemReqs : PostBookingAutoCar(r)
  \/ \E i \in 1..MaxId : DeleteMemBooking(i)
  \/ Restart

SpecMem == InitMem /\ [][NextMem]_vars

\* ------------------------------------------- a store whose calls may fail
\* one client; every store call of its request either answers or fails
IOReqs ==
  { BookingReq(o, s, e, sel) :
      o \in Orgs, s \in Times, e \in Times, sel \in { <<1, NULL>>, <<2, NULL>>, <<NULL, 1>> } }

IOStartCreateBooking(r) ==
  /\ ~InFlight(State, 1)
  /\ RoomForInsert
  /\ Set(BeginCreateBooking(State, 1, r))

IOStartCancelBooking(r) ==
  /\ ~InFlight(State, 1)
  /\ Set(BeginCancelBooking(State, 1, r))

StoreCallAnswers ==
  /\ InFlight(State, 1)
  /\ Set(Step(State, 1, FALSE))

StoreCallFails ==
  /\ InFlight(State, 1)
  /\ Set(Step(State, 1, TRUE))

NextIO ==
  \/ \E r \in IOReqs : IOStartCreateBooking(r)
  \/ \E r \in CancelReqs : IOStartCancelBooking(r)
  \/ StoreCallAnswers
  \/ StoreCallFails

SpecIO == Init /\ [][NextIO]_vars

\* ------------------------------------------- a store that rejects inserts
\* the bookings table may carry an exclusion constraint on (car, interval): an
\* insert that intersects a stored row of the same car is then refused by the
\* store, and the handler sees the error of the insert call
ViolatesConstraint(st, p) ==
  LET r == st.reqs[p].req
  IN  \E b \in st.bookings :
         /\ \/ r.carId # NULL /\ b.car_id = r.carId
            \/ r.extraCarId # NULL /\ b.extra_car_id = r.extraCarId
         /\ isOverlap(r.start, r.end, b.start, b.end)

RejectInsertPool(p) ==
  /\ reqs[p].pc = "insertPool"
  /\ ViolatesConstraint(State, p)
  /\ Set(InsertPool(State, p, TRUE))

RejectInsertExtra(p) ==
  /\ reqs[p].pc = "insertExtra"
  /\ ViolatesConstraint(State, p)
  /\ Set(InsertExtra(State, p, TRUE))

NextFault ==
  \/ NextRace
  \/ \E p \in Procs : RejectInsertPool(p)
  \/ \E p \in Procs : RejectInsertExtra(p)

SpecFault == Init /\ [][NextFault]_vars

\* =================================================== properties
\* the step act, taken in a state where pre holds, ends with post:
\* (pre /\ act) => post, with the cheap conjuncts first
Ensures(pre, act, post) == pre => (post \/ ~act)

Resp == reqs[1].resp
RespAfter == reqs'[1].resp

IsValidationError(code) ==
  code \in {"400 orgId", "400 required", "400 range",
            "400 no selector", "400 two selectors"}

\* the two car bookings are on the same pool car or on the same extra car
SameResource(b1, b2) ==
  \/ b1.car_id # NULL /\ b1.car_id = b2.car_id
  \/ b1.extra_car_id # NULL /\ b1.extra_car_id = b2.extra_car_id

Intersect(s1, e1, s2, e2) == s1 < e2 /\ s2 < e1

\* the request names exactly one of a pool car and an extra car
OneSelector(r) == (r.carId # NULL) # (r.extraCarId # NULL)

\* the stored bookings of the request's organization on the request's car
RowsOf(r) ==
  { b \in bookings :
      /\ b.org_id = r.orgId
      /\ \/ r.carId # NULL /\ b.car_id = r.carId
         \/ r.extraCarId # NULL /\ b.extra_car_id = r.extraCarId }

\* the extra car of the request exists for its organization and start day
ExtraCarMatches(r) ==
  \E x \in extra_cars :
     x.id = r.extraCarId /\ x.org_id = r.orgId /\ x.date = r.start \div DayLen

\* the car of the request exists (for an extra car: for this organization and day)
ResourceFound(r) ==
  IF r.carId # NULL THEN r.carId \in DOMAIN cars ELSE ExtraCarMatches(r)

\* C1: with requests executed one at a time, no two stored bookings of the same
\* organization and the same pool car, extra car or room have intersecting intervals
C1_NoOverlapSameOrg ==
  /\ \A b1, b2 \in bookings :
        (b1 # b2 /\ b1.org_id = b2.org_id /\ SameResource(b1, b2))
          => ~Intersect(b1.start, b1.end, b2.start, b2.end)
  /\ \A m1, m2 \in meeting_bookings :
        (m1 # m2 /\ m1.org_id = m2.org_id /\ m1.room_id = m2.room_id)
          => ~Intersect(m1.start_time, m1.end_time, m2.start_time, m2.end_time)

\* two bookings of one organization on one car are stored
C1_Witness ==
  /\ nextBookingId > 2
  /\ \E b1, b2 \in bookings :
        b1 # b2 /\ b1.org_id = b2.org_id /\ SameResource(b1, b2)

C4_TouchingIsNoConflict ==
  [][ /\ \A r \in BookingReqs :
           Ensures( /\ r.start < r.end
                    /\ OneSelector(r)
                    /\ \E a \in RowsOf(r) : a.end = r.start \/ r.end = a.start
                    /\ \A b \in RowsOf(r) : b.end <= r.start \/ r.end <= b.start,
                    DoCreateBooking(r),
                    /\ RespAfter # "409 booked"
                    /\ ResourceFound(r) =>
                         /\ RespAfter = "201"
                         /\ bookings \subseteq bookings'
                         /\ \E n \in bookings' \ bookings :
                               /\ n.start = r.start /\ n.end = r.end
                               /\ n.org_id = r.orgId
                               /\ n.car_id = r.carId
                               /\ n.extra_car_id = r.extraCarId )
      /\ \A r \in MeetingReqs :
           Ensures( /\ r.start < r.end
                    /\ r.roomId # NULL
                    /\ \E a \in meeting_bookings :
                          /\ a.room_id = r.roomId
                          /\ (a.end_time = r.start \/ r.end = a.start_time)
                    /\ \A b \in meeting_bookings :
                          b.room_id = r.roomId =>
                            (b.end_time <= r.start \/ r.end <= b.start_time),
                    DoCreateMeeting(r),
                    /\ RespAfter # "409 booked"
                    /\ (\E x \in meeting_rooms :
                           x.id = r.roomId /\ x.org_id = r.orgId) =>
                         /\ RespAfter = "201"
                         /\ meeting_bookings \subseteq meeting_bookings'
                         /\ \E n \in meeting_bookings' \ meeting_bookings :
                               n.start_time = r.start /\ n.end_time = r.end )
    ]_vars

\* two touching bookings of one organization on one car, the second just created
C4_Witness ==
  /\ reqs[1].op = "createBooking"
  /\ Resp = "201"
  /\ \E b1, b2 \in bookings :
        /\ b1.org_id = b2.org_id /\ SameResource(b1, b2)
        /\ b1.end = b2.start
        /\ b2.id = nextBookingId - 1

\* C5: a create whose window intersects a stored booking of the same car and
\* organization fails and inserts nothing, and the failure is the 409 conflict
\* whenever the request gets as far as the overlap check (its car is found)
C5_StrictOverlapRejected ==
  [][ \A r \in BookingReqs :
        Ensures( /\ r.start < r.end
                 /\ OneSelector(r)
                 /\ \E b \in RowsOf(r) : b.start < r.end /\ r.start < b.end,
                 DoCreateBooking(r),
                 /\ bookings' = bookings
                 /\ RespAfter # "201"
                 /\ ResourceFound(r) => RespAfter = "409 booked" )
    ]_vars

\* a create was answered 409 for a booking that is stored
C5_Witness ==
  /\ reqs[1].op = "createBooking"
  /\ Resp = "409 booked"
  /\ bookings # {}

\* C6: a create for a car or a room with end = start or end < start is answered
\* with a validation error and inserts nothing; every stored booking has
\* end > start
C6_InvalidRangeRejected ==
  [][ /\ \A r \in BookingReqs :
           Ensures( r.end <= r.start,
                    DoCreateBooking(r),
                    IsValidationError(RespAfter) /\ bookings' = bookings )
      /\ \A r \in MeetingReqs :
           Ensures( r.end <= r.start,
                    DoCreateMeeting(r),
                    /\ IsValidationError(RespAfter)
                    /\ meeting_bookings' = meeting_bookings )
      /\ \A b \in bookings' : b.start < b.end
      /\ \A m \in meeting_bookings' : m.start_time < m.end_time
    ]_vars

\* a create was refused for its range while a booking is stored
C6_Witness ==
  /\ reqs[1].op \in {"createBooking", "createMeeting"}
  /\ Resp = "400 range"
  /\ bookings \cup meeting_bookings # {}

\* C7: a create that names no car, or a pool car and an extra car at once, is
\* answered with a validation error and inserts nothing; every stored booking
\* references exactly one resource
C7_ExactlyOneResource ==
  [][ /\ \A r \in BookingReqs :
           Ensures( \/ r.carId = NULL /\ r.extraCarId = NULL
                    \/ r.carId # NULL /\ r.extraCarId # NULL,
                    DoCreateBooking(r),
                    IsValidationError(RespAfter) /\ bookings' = bookings )
      /\ \A b \in bookings' : (b.car_id # NULL) # (b.extra_car_id # NULL)
      /\ \A m \in meeting_bookings' : m.room_id # NULL
    ]_vars

\* a create naming two cars was refused while a booking is stored
C7_Witness ==
  /\ reqs[1].op = "createBooking"
  /\ Resp = "400 two selectors"
  /\ bookings # {}

\* C10: a create on an extra car is answered 201 only if that car exists for the
\* organization of the request with its day equal to the day of the start;
\* otherwise it fails and inserts nothing
C10_ExtraCarDayScoped ==
  [][ /\ \A r \in BookingReqs :
           Ensures( r.extraCarId # NULL,
                    DoCreateBooking(r),
                    /\ RespAfter = "201" => ExtraCarMatches(r)
                    /\ ~ExtraCarMatches(r) =>
                         (RespAfter # "201" /\ bookings' = bookings) )
      /\ \A b \in bookings' :
           b.extra_car_id # NULL =>
             \E x \in extra_cars :
                x.id = b.extra_car_id /\ x.org_id = b.org_id
                  /\ x.date = b.start \div DayLen
    ]_vars

\* a create on an extra car was refused by the car lookup while a booking of an
\* extra car is stored
C10_Witness ==
  /\ reqs[1].op = "createBooking"
  /\ Resp = "400 extra car"
  /\ \E b \in bookings : b.extra_car_id # NULL

\* ------------------------------------------- maintenance (SpecMaint)
\* the car is in the garage with no complete window, or with a window that
\* intersects [s, e)
Blocked(car, s, e) ==
  /\ car.status = "garage"
  /\ \/ car.unavailable_from = NULL
     \/ car.unavailable_until = NULL
     \/ (s < car.unavailable_until /\ car.unavailable_from < e)

\* C8: a valid create for an existing pool car is answered "409 garage", with
\* nothing inserted, exactly when the car has status garage and either lacks a
\* (complete) window or has a window that intersects the requested interval
C8_MaintenanceBlocks ==
  [][ \A r \in PoolReqs :
        Ensures( r.start < r.end /\ r.carId \in DOMAIN cars,
                 DoCreateBooking(r),
                 /\ (RespAfter = "409 garage")
                      <=> Blocked(cars[r.carId], r.start, r.end)
                 /\ RespAfter = "409 garage" => bookings' = bookings )
    ]_vars

\* a create was refused for a garage window that does not cover every instant
C8_Witness ==
  /\ reqs[1].op = "createBooking"
  /\ Resp = "409 garage"
  /\ cars[1].status = "garage"
  /\ cars[1].unavailable_from # NULL
  /\ cars[1].unavailable_until # NULL
  /\ cars[1].unavailable_from < cars[1].unavailable_until
  /\ cars[1].unavailable_until < MaxTime

\* C9: no stored booking is on a pool car that is in the garage with a window
\* intersecting the booking, or in the garage with no window
C9_NoBookingInBlackout ==
  \A b \in bookings :
     b.car_id \in DOMAIN cars => ~Blocked(cars[b.car_id], b.start, b.end)

\* ------------------------------------------- two creates at once (SpecRace)
\* C2: of two create requests for the same car and organization with
\* intersecting windows, run at the same time on an empty store, exactly one is
\* answered 201, the other 409, and exactly one booking is stored
C2_ExactlyOneWins ==
  \A p, q \in Procs :
     ( /\ p < q
       /\ reqs[p].pc = "done" /\ reqs[q].pc = "done"
       /\ reqs[p].req.orgId = reqs[q].req.orgId
       /\ reqs[p].req.carId = reqs[q].req.carId
       /\ reqs[p].req.extraCarId = reqs[q].req.extraCarId
       /\ reqs[p].req.start < reqs[p].req.end
       /\ reqs[q].req.start < reqs[q].req.end
       /\ Intersect(reqs[p].req.start, reqs[p].req.end,
                    reqs[q].req.start, reqs[q].req.end)
       /\ ResourceFound(reqs[p].req) /\ ResourceFound(reqs[q].req) )
     => /\ {reqs[p].resp, reqs[q].resp} = {"201", "409 booked"}
        /\ Cardinality(bookings) = 1

\* ------------------------------------------- cancellation (SpecAuth)
\* the request comes with a verified token
Identified(r) == r.auth = "bearer"
CallerIsAdmin(r) == Identified(r) /\ r.token.role = "admin"

IsForbidden(code) == code \in {"403 owner", "403 legacy"}

BookingWithId(i) == { b \in bookings : b.id = i }
MeetingWithId(i) == { m \in meeting_bookings : m.id = i }

\* C11: a cancel by an identified caller of a booking (of a car or of a room)
\* that has an owner is answered 200 and removes exactly that booking when the
\* caller is the owner or an admin, and is answered 403 and removes nothing
\* when the caller is neither
C11_OwnerOrAdminCancels ==
  [][ \A r \in AuthCancelReqs :
        /\ \A b \in BookingWithId(r.id) :
             Ensures( Identified(r) /\ b.user_id # NULL,
                      DoCancelBooking(r),
                      IF b.user_id = r.token.userId \/ r.token.role = "admin"
                        THEN RespAfter = "200" /\ bookings' = bookings \ {b}
                        ELSE IsForbidden(RespAfter) /\ bookings' = bookings )
        /\ \A m \in MeetingWithId(r.id) :
             Ensures( Identified(r) /\ m.user_id # NULL,
                      DoCancelMeeting(r),
                      IF m.user_id = r.token.userId \/ r.token.role = "admin"
                        THEN /\ RespAfter = "200"
                             /\ meeting_bookings' = meeting_bookings \ {m}
                        ELSE /\ IsForbidden(RespAfter)
                             /\ meeting_bookings' = meeting_bookings )
    ]_vars

\* a member was refused the cancellation of a booking of another user, which is
\* still stored
C11_Witness ==
  /\ reqs[1].op = "cancelBooking"
  /\ Resp = "403 owner"
  /\ reqs[1].req.auth = "bearer"
  /\ reqs[1].req.token.role = "member"
  /\ \E b \in bookings : b.user_id \notin {NULL, reqs[1].req.token.userId}

\* C12 as stated: a cancel whose caller is not an identified admin removes no
\* booking without an owner
C12_LegacyOnlyByAdmin ==
  [][ \A r \in AuthCancelReqs :
        /\ Ensures( ~CallerIsAdmin(r),
                    DoCancelBooking(r),
                    \A b \in bookings : b.user_id = NULL => b \in bookings' )
        /\ Ensures( ~CallerIsAdmin(r),
                    DoCancelMeeting(r),
                    \A m \in meeting_bookings :
                       m.user_id = NULL => m \in meeting_bookings' )
    ]_vars

\* C12 as amended: a cancel by an identified caller who is not an admin removes
\* no booking without an owner and is answered 403 when it names one
C12_LegacyNotByMember ==
  [][ \A r \in AuthCancelReqs :
        /\ Ensures( Identified(r) /\ ~CallerIsAdmin(r),
                    DoCancelBooking(r),
                    /\ \A b \in bookings : b.user_id = NULL => b \in bookings'
                    /\ (\E b \in BookingWithId(r.id) : b.user_id = NULL)
                         => IsForbidden(RespAfter) )
        /\ Ensures( Identified(r) /\ ~CallerIsAdmin(r),
                    DoCancelMeeting(r),
                    /\ \A m \in meeting_bookings :
                          m.user_id = NULL => m \in meeting_bookings'
                    /\ (\E m \in MeetingWithId(r.id) : m.user_id = NULL)
                         => IsForbidden(RespAfter) )
    ]_vars

\* a member was refused the cancellation of a booking without an owner
C12_Witness ==
  /\ reqs[1].op = "cancelBooking"
  /\ IsForbidden(Resp)
  /\ reqs[1].req.auth = "bearer"
  /\ reqs[1].req.token.role = "member"
  /\ bookings # {}
  /\ \A b \in bookings : b.user_id = NULL

\* C13: a cancel without a verified token of a booking that is stored is
\* answered 200 and removes exactly that booking, whoever owns it
C13_AnonymousCancels ==
  [][ \A r \in AuthCancelReqs :
        /\ Ensures( ~Identified(r) /\ BookingWithId(r.id) # {},
                    DoCancelBooking(r),
                    /\ RespAfter = "200"
                    /\ bookings' = bookings \ BookingWithId(r.id) )
        /\ Ensures( ~Identified(r) /\ MeetingWithId(r.id) # {},
                    DoCancelMeeting(r),
                    /\ RespAfter = "200"
                    /\ meeting_bookings' = meeting_bookings \ MeetingWithId(r.id) )
    ]_vars

\* a request without a verified token has removed a booking that has an owner
C13_Witness ==
  /\ reqs[1].op = "cancelBooking"
  /\ Resp = "200"
  /\ reqs[1].req.auth # "bearer"
  /\ Len(reqs[1].body) = 1
  /\ reqs[1].body[1].user_id # NULL

IsDomainError(code) ==
  \/ IsValidationError(code)
  \/ code \in {"400 unknown car", "400 extra car", "400 unknown room", "404",
               "409 garage", "409 booked", "403 owner", "403 legacy"}

\* C15: a create or a cancel that is answered with a validation, not-found,
\* conflict or forbidden error leaves the stored bookings exactly as they were
C15_FailureChangesNothing ==
  [][ ( /\ reqs'[1].op \in {"createBooking", "cancelBooking",
                            "createMeeting", "cancelMeeting"}
        /\ IsDomainError(RespAfter) )
      => /\ bookings' = bookings
         /\ meeting_bookings' = meeting_bookings
    ]_vars

\* a cancel was refused while two bookings are stored
C15_Witness ==
  /\ reqs[1].op = "cancelBooking"
  /\ IsForbidden(Resp)
  /\ Cardinality(bookings) = 2

\* C17: the booking a create inserts has the userId of the verified token as
\* its owner, and no owner when the request has no verified token
C17_OwnerIsCaller ==
  [][ /\ \A r \in AuthBookingReqs :
           Ensures( r.start < r.end,
                    DoCreateBooking(r),
                    \A n \in bookings' \ bookings :
                       n.user_id = IF Identified(r) THEN r.token.userId ELSE NULL )
      /\ \A r \in AuthMeetingReqs :
           Ensures( r.start < r.end,
                    DoCreateMeeting(r),
                    \A n \in meeting_bookings' \ meeting_bookings :
                       n.user_id = IF Identified(r) THEN r.token.userId ELSE NULL )
    ]_vars

\* a booking owned by a user and a booking without an owner are stored, the
\* second one just created by a request whose token failed verification
C17_Witness ==
  /\ reqs[1].op = "createBooking"
  /\ Resp = "201"
  /\ reqs[1].req.auth = "invalid"
  /\ \E b1, b2 \in bookings :
        /\ b1.user_id # NULL
        /\ b2.user_id = NULL
        /\ b2.id = nextBookingId - 1

\* ------------------------------------------- rejected inserts (SpecFault)
\* C16: a create whose insert the store refuses for a violated overlap
\* constraint is answered with the 409 of a booking conflict
C16_RejectedInsertIsConflict ==
  [][ \A p \in Procs :
        (RejectInsertPool(p) \/ RejectInsertExtra(p))
          => reqs'[p].resp = "409 booked"
    ]_vars

\* ------------------------------------------- availability (SpecAvail)
\* an availability query was answered with its verdicts
Answered == reqs[1].op = "availability" /\ Resp = "200"

Query == reqs[1].req

Verdicts == { reqs[1].body[i] : i \in 1..Len(reqs[1].body) }

\* a stored booking of the pool car (of the extra car) intersects the window
BookedPool(c, rows, s, e) ==
  \E b \in rows : b.car_id = c /\ Intersect(s, e, b.start, b.end)

BookedExtra(x, rows, s, e) ==
  \E b \in rows : b.extra_car_id = x /\ Intersect(s, e, b.start, b.end)

\* C18 as stated: a pool car is reported available exactly when it is not
\* blocked by maintenance for the window and no stored booking of that car
\* intersects the window; an extra car exactly when no stored booking of it
\* intersects the window
C18_VerdictFromAllBookings ==
  Answered =>
    \A v \in Verdicts :
       /\ v.type = "pool" =>
            (v.available <=>
               /\ ~Blocked(cars[v.id], Query.start, Query.end)
               /\ ~BookedPool(v.id, bookings, Query.start, Query.end))
       /\ v.type = "extra" =>
            (v.available <=> ~BookedExtra(v.id, bookings, Query.start, Query.end))

\* C18 as amended: for a pool car only the bookings of the organization that
\* asks count
C18_VerdictFromOwnBookings ==
  Answered =>
    \A v \in Verdicts :
       /\ v.type = "pool" =>
            (v.available <=>
               /\ ~Blocked(cars[v.id], Query.start, Query.end)
               /\ ~BookedPool(v.id, { b \in bookings : b.org_id = Query.orgId },
                              Query.start, Query.end))
       /\ v.type = "extra" =>
            (v.available <=> ~BookedExtra(v.id, bookings, Query.start, Query.end))

\* a pool car in the garage for one day is reported available on the other day,
\* and an extra car is reported taken
C18_Witness ==
  /\ Answered
  /\ \E v \in Verdicts :
        /\ v.type = "pool" /\ v.available
        /\ cars[v.id].status = "garage" /\ cars[v.id].unavailable_from # NULL
  /\ \E v \in Verdicts : v.type = "extra" /\ ~v.available
  /\ \E b \in bookings : b.car_id # NULL /\ b.org_id = Query.orgId

\* the verdicts of one type, as the ids they are about
VerdictIds(type) == { v.id : v \in { w \in Verdicts : w.type = type } }

VisibleExtraCars ==
  { x.id : x \in { y \in extra_cars :
                     y.org_id = Query.orgId /\ y.date = Query.start \div DayLen } }

VisibleRooms == { m.id : m \in { y \in meeting_rooms : y.org_id = Query.orgId } }

\* C19 as stated: the answer holds a verdict for every pool car, for every extra
\* car of the organization on the day of the start, and for every meeting room
\* of the organization
C19_VerdictForCarsAndRooms ==
  Answered =>
    /\ DOMAIN cars \subseteq VerdictIds("pool")
    /\ VisibleExtraCars \subseteq VerdictIds("extra")
    /\ VisibleRooms \subseteq VerdictIds("room")

\* C19 as amended: the answer holds exactly one verdict for every pool car and
\* for every extra car of the organization on the day of the start, and no
\* other verdict (none for a meeting room)
C19_VerdictForCarsOnly ==
  Answered =>
    /\ VerdictIds("pool") = DOMAIN cars
    /\ VerdictIds("extra") = VisibleExtraCars
    /\ \A v \in Verdicts : v.type \in {"pool", "extra"}
    /\ Len(reqs[1].body) = Cardinality(DOMAIN cars) + Cardinality(VisibleExtraCars)

\* an answer with a pool car and an extra car, while the organization has a room
C19_Witness ==
  /\ Answered
  /\ VerdictIds("pool") # {}
  /\ VerdictIds("extra") # {}
  /\ VisibleRooms # {}

\* C20: an availability query leaves the bookings, the pool cars with status
\* and window, the extra cars and the rooms as they were
C20_AvailabilityChangesNothing ==
  [][ reqs'[1].op = "availability"
        => UNCHANGED <<cars, extra_cars, meeting_rooms, bookings, meeting_bookings,
                       nextBookingId, nextMeetingId>>
    ]_vars

\* a query was answered while a booking is stored and the car is in the garage
C20_Witness ==
  /\ Answered
  /\ bookings # {}
  /\ cars[1].status = "garage"

\* ------------------------------------------- listing (SpecList)
\* a list query was answered with its rows
ListAnswered == reqs[1].op = "listBookings" /\ Resp = "200"

ListedIds == { reqs[1].body[i].id : i \in 1..Len(reqs[1].body) }

\* C21: a stored booking is in the answer of listBookings(O, D) exactly when it
\* belongs to organization O and D is the UTC day of its start: never for the
\* day before or after, and never for another organization
C21_ListedOnStartDayOnly ==
  (ListAnswered /\ Query.date # NULL) =>
    \A b \in bookings :
       (b.id \in ListedIds) <=>
          (b.org_id = Query.orgId /\ b.start \div DayLen = Query.date)

\* C22: a booking of the organization that starts at the last instant
\* (23:59:59.999) of day D is in the answer of listBookings(org, D)
C22_LastInstantOfDayListed ==
  (ListAnswered /\ Query.date # NULL) =>
    \A b \in bookings :
       (b.org_id = Query.orgId /\ b.start = Query.date * DayLen + (DayLen - 1))
         => b.id \in ListedIds

\* ------------------------------------------- status of the cars (SpecMaint)
\* C23: after a successful setMaintenance that sets the status of a car to ok,
\* both bounds of its window are null, whatever window the request carried
C23_OkClearsWindow ==
  (reqs[1].op = "setMaintenance" /\ Resp = "200") =>
    \A c \in DOMAIN cars :
       cars[c].status = "ok" =>
         (cars[c].unavailable_from = NULL /\ cars[c].unavailable_until = NULL)

\* C24: a setMaintenance with a valid status for a car that does not exist is
\* answered 404 and changes no car
C24_MissingCarIsNotFound ==
  [][ \A r \in MaintenanceReqs :
        Ensures( r.carId \notin DOMAIN cars /\ r.status \in {"ok", "garage"},
                 DoSetMaintenance(r),
                 RespAfter = "404" /\ cars' = cars )
    ]_vars

\* C25: a create or a cancel leaves the status and the window of every car as
\* they were; a step that changes a car is a setMaintenance
C25_OnlyMaintenanceChangesCars ==
  [][ /\ reqs'[1].op \in {"createBooking", "cancelBooking"} => cars' = cars
      /\ cars' # cars => reqs'[1].op = "setMaintenance"
    ]_vars

\* a booking was created on a car that is in the garage for another day
C25_Witness ==
  /\ reqs[1].op = "createBooking"
  /\ Resp = "201"
  /\ cars[1].status = "garage"
  /\ cars[1].unavailable_from # NULL

\* ------------------------------------------- who sets the status (SpecAdmin)
\* C26: a step that changes the status or the window of a car is a
\* setMaintenance of a caller with a verified token of role admin
C26_OnlyAdminChangesCars ==
  [][ cars' # cars =>
        /\ reqs'[1].op = "setMaintenance"
        /\ reqs'[1].req.auth = "bearer"
        /\ reqs'[1].req.token.role = "admin"
    ]_vars

\* ------------------------------------------- rooms (SpecRoom)
\* the room of the request exists and belongs to the organization of the
\* request or to the organization whose rooms that organization uses
RoomVisible(r) ==
  \E x \in meeting_rooms :
     /\ x.id = r.roomId
     /\ (x.org_id = r.orgId \/ x.org_id = MeetingOrgOf(r.orgId))

\* the room lookup of the request finds its row
RoomFound(r) == \E x \in meeting_rooms : x.id = r.roomId /\ x.org_id = r.orgId

\* C27: a create for a room is answered 201 only if the room exists and belongs
\* to the organization of the request or to its meeting namespace; otherwise it
\* fails and inserts nothing
C27_RoomMustBeVisible ==
  [][ \A r \in RoomReqs :
        Ensures( reqs'[1].op = "createMeeting",
                 DoCreateMeeting(r),
                 /\ RespAfter = "201" => RoomVisible(r)
                 /\ ~RoomVisible(r) =>
                      /\ RespAfter # "201"
                      /\ meeting_bookings' = meeting_bookings )
    ]_vars

\* a create for a room that does not exist was refused while the existing room
\* has a booking
C27_Witness ==
  /\ reqs[1].op = "createMeeting"
  /\ Resp = "400 unknown room"
  /\ meeting_bookings # {}

\* C28: a create for a room whose window intersects a stored booking of that
\* room fails and inserts nothing, whichever organization made the stored
\* booking, and the failure is the 409 conflict whenever the room lookup of the
\* request finds the room
C28_RoomConflictAcrossOrgs ==
  [][ \A r \in RoomReqs :
        Ensures( /\ reqs'[1].op = "createMeeting"
                 /\ r.start < r.end
                 /\ \E m \in meeting_bookings :
                       /\ m.room_id = r.roomId
                       /\ Intersect(r.start, r.end, m.start_time, m.end_time),
                 DoCreateMeeting(r),
                 /\ RespAfter # "201"
                 /\ meeting_bookings' = meeting_bookings
                 /\ RoomFound(r) => RespAfter = "409 booked" )
    ]_vars

\* a create by a user of organization 1 was answered 409 for a booking that a
\* user of organization 2 made in the same room
C28_Witness ==
  /\ reqs[1].op = "createMeeting"
  /\ Resp = "409 booked"
  /\ reqs[1].req.auth = "bearer"
  /\ reqs[1].req.token.orgId = 1
  /\ meeting_bookings # {}
  /\ \A m \in meeting_bookings : m.source_org_id = 2 /\ m.org_id = 1

\* the extra cars with the organization, the day and the license of x
Twins(x) ==
  { y \in extra_cars : y.org_id = x.org_id /\ y.date = x.date /\ y.license = x.license }

\* C29: a create of an extra car with an empty license is answered with a
\* validation error and stores nothing; with a license that is not empty (and an
\* organization) it is answered 201 and stores one more extra car, with an id no
\* stored car has, for the organization and the day of the request (the day of
\* the clock when none is given), also when a car with the same license,
\* organization and day is stored
C29_ExtraCarNotDeduplicated ==
  [][ \A r \in ExtraCarReqs, today \in Days :
        Ensures( reqs'[1].op = "createExtraCar",
                 DoCreateExtraCar(r, today),
                 /\ r.license = <<>> =>
                      /\ RespAfter \in {"400 orgId", "400 license"}
                      /\ extra_cars' = extra_cars
                 /\ (r.license # <<>> /\ r.orgId # NULL) =>
                      /\ RespAfter = "201"
                      /\ \E x \in extra_cars' \ extra_cars :
                            /\ extra_cars' = extra_cars \cup {x}
                            /\ x.id \notin { y.id : y \in extra_cars }
                            /\ x.org_id = r.orgId
                            /\ x.date = (IF r.date # NULL THEN r.date ELSE today)
                            /\ x.license = Trim(r.license) )
    ]_vars

\* a create was answered 201 and two stored extra cars have the same license,
\* organization and day
C29_Witness ==
  /\ reqs[1].op = "createExtraCar"
  /\ Resp = "201"
  /\ \E x \in extra_cars : x.id = reqs[1].body[1].id /\ Cardinality(Twins(x)) > 1

\* the place of a store call in the create request: the lookup of the car, the
\* overlap check, the insert, the response
Rank(pc) ==
  CASE pc \in {"carCheck", "extraCheck"} -> 1
    [] pc \in {"overlapPool", "overlapExtra"} -> 2
    [] pc \in {"insertPool", "insertExtra"} -> 3
    [] pc = "done" -> 4
    [] OTHER -> 0

\* C30: in every create of a car booking, interleaved with another and with
\* inserts the store may refuse: the request comes to its insert only from the
\* overlap check of the same kind of car, by one step; its store calls are made
\* in order and none twice (one overlap check, one insert); the step after the
\* insert is the response, after which the request does nothing; and a booking
\* is stored only by such an insert, one row at a time
C30_OneCheckThenOneInsert ==
  [][ /\ \A p \in Procs :
           LET a == reqs[p].pc
               b == reqs'[p].pc
           IN  /\ (b = "insertPool" /\ a # b) => a = "overlapPool"
               /\ (b = "insertExtra" /\ a # b) => a = "overlapExtra"
               /\ a # b => Rank(a) < Rank(b)
               /\ (Rank(a) = 3 /\ reqs'[p] # reqs[p]) => b = "done"
               /\ a = "done" => reqs'[p] = reqs[p]
      /\ bookings' # bookings =>
           /\ \E row \in bookings' \ bookings : bookings' = bookings \cup {row}
           /\ \E p \in Procs : /\ Rank(reqs[p].pc) = 3
                                /\ reqs'[p].pc = "done"
                                /\ reqs'[p].resp = "201"
    ]_vars

\* one request has stored its booking and the insert of the other was refused
\* by the store and answered, not tried again
C30_Witness ==
  \E p, q \in Procs :
     /\ reqs[p].pc = "done" /\ reqs[p].resp = "201"
     /\ reqs[q].pc = "done" /\ reqs[q].resp = "500 insert"
     /\ Cardinality(bookings) = 1

IsStoreError(code) == code \in {"500 check", "500 insert", "500 delete"}

\* C31: a store call of a create or a cancel that fails, where it would have
\* answered otherwise, ends the request with an internal failure (a 500), not
\* with a validation, not-found, conflict or forbidden answer and not with a
\* success
C31_StoreFailureIsInternal ==
  [][ Ensures( /\ InFlight(State, 1)
               /\ Step(State, 1, TRUE) # Step(State, 1, FALSE),
               StoreCallFails,
               /\ reqs'[1].pc = "done"
               /\ IsStoreError(RespAfter) )
    ]_vars

\* C32: the booking a create for a room inserts has the organization of the
\* request as org_id and, as source_org_id, the organization of the verified
\* token of the caller, also when the two differ; with no verified token its
\* source_org_id is the organization of the request
C32_SourceOrgIsCallersOrg ==
  [][ \A r \in RoomReqs :
        Ensures( reqs'[1].op = "createMeeting" /\ RespAfter = "201",
                 DoCreateMeeting(r),
                 \E m \in meeting_bookings' \ meeting_bookings :
                    /\ meeting_bookings' = meeting_bookings \cup {m}
                    /\ m.org_id = r.orgId
                    /\ m.source_org_id =
                         (IF r.auth = "bearer" THEN r.token.orgId ELSE r.orgId) )
    ]_vars

\* a caller of organization 2 has just booked the room of organization 1
C32_Witness ==
  /\ reqs[1].op = "createMeeting"
  /\ Resp = "201"
  /\ reqs[1].req.auth = "bearer"
  /\ \E m \in meeting_bookings :
        /\ m.id = nextMeetingId - 1
        /\ m.org_id = 1
        /\ m.source_org_id = 2
        /\ reqs[1].req.token.orgId = 2

\* the booking is on the car the request names
OnResourceOf(r, b) ==
  \/ r.carId # NULL /\ b.car_id = r.carId
  \/ r.extraCarId # NULL /\ b.extra_car_id = r.extraCarId

\* the state as the request of p sees its own car: the catalog entry of the car,
\* the stored bookings of the car, and nothing else (no other car, no booking
\* of another car, no room, no other request, a fresh id sequence)
OwnResourceOnly(st, p) ==
  LET r == st.reqs[p].req
  IN  [cars |-> [c \in (DOMAIN st.cars) \cap {r.carId} |-> st.cars[c]],
       extra_cars |-> { x \in st.extra_cars : x.id = r.extraCarId },
       meeting_rooms |-> {},
       bookings |-> { b \in st.bookings : OnResourceOf(r, b) },
       meeting_bookings |-> {},
       nextBookingId |-> 0,
       nextMeetingId |-> 0,
       reqs |-> [q \in Procs |-> IF q = p THEN st.reqs[p] ELSE Idle]]

\* what the request of p comes to when it runs on from st: its response and the
\* booking it stores, but for the id
Outcome(st, p) ==
  LET after == Run(st, p)
  IN  <<after.reqs[p].resp,
        { [b EXCEPT !.id = 0] : b \in after.bookings \ st.bookings }>>

\* C33: the outcome of a create that is under way is the outcome it has in the
\* state that holds only the catalog entry and the stored bookings of its own
\* car: two states that agree on these give the same outcome, whatever is
\* stored or under way for other cars
C33_OtherResourcesDoNotMatter ==
  \A p \in Procs :
     InFlight(State, p) => Outcome(State, p) = Outcome(OwnResourceOnly(State, p), p)

\* a create for the pool car is under way and will be answered 201 while the
\* extra car has a booking of the same organization that intersects its window
C33_Witness ==
  \E p \in Procs :
     /\ InFlight(State, p) /\ reqs[p].req.carId = 1
     /\ Outcome(State, p)[1] = "201"
     /\ \E b \in bookings :
           /\ b.extra_car_id = 1
           /\ b.org_id = reqs[p].req.orgId
           /\ Intersect(reqs[p].req.start, reqs[p].req.end, b.start, b.end)

\* the response of the create r run in this state with no other request
CreateResp(r) == Run(BeginCreateBooking(State, 1, r), 1).reqs[1].resp

\* the answer of the availability query for the organization and the window of
\* r, run in this state, reports the car of r as available
ReportedAvailable(r) ==
  LET body == Run(BeginAvailability(State, 1,
                    AvailabilityReq(r.orgId, r.start, r.end)), 1).reqs[1].body
  IN  \E i \in 1..Len(body) :
         /\ body[i].available
         /\ \/ r.carId # NULL /\ body[i].type = "pool" /\ body[i].id = r.carId
            \/ r.extraCarId # NULL /\ body[i].type = "extra" /\ body[i].id = r.extraCarId

\* C34: in every state, a create with a valid window for the pool car, or for
\* an extra car, is answered 201 exactly when the availability query of the same
\* organization and window reports that car as available
C34_CreateAgreesWithAvailability ==
  \A r \in AvailBookingReqs : (CreateResp(r) = "201") <=> ReportedAvailable(r)

\* the pool car is in the garage for some window, the extra car has a booking,
\* and of two creates of organization 1 for the extra car one would be
\* answered 201 and one 409
C34_Witness ==
  /\ cars[1].status = "garage"
  /\ \E b \in bookings : b.extra_car_id = 1
  /\ \E r1, r2 \in AvailBookingReqs :
        /\ r1.extraCarId = 1 /\ CreateResp(r1) = "201" /\ ReportedAvailable(r1)
        /\ r2.extraCarId = 1 /\ CreateResp(r2) = "409 booked" /\ ~ReportedAvailable(r2)
        /\ r1.orgId = 1 /\ r2.orgId = 1

\* the create for the car, the organization and the window of the booking b
SameSlotReq(b) == BookingReq(b.org_id, b.start, b.end, <<b.car_id, b.extra_car_id>>)

\* the response of the create r run in the state st with no other request
CreateRespIn(st, r) == Run(BeginCreateBooking(st, 1, r), 1).reqs[1].resp

\* C35: in the state a cancel answered 200 leaves, a create for the car, the
\* organization and the window of the booking it removed is not answered with
\* the booking conflict
C35_CancelFreesSlot ==
  [][ \A r \in CancelReqs :
        Ensures( reqs'[1].op = "cancelBooking" /\ RespAfter = "200",
                 DoCancelBooking(r),
                 CreateRespIn(State', SameSlotReq(reqs'[1].body[1])) # "409 booked" )
    ]_vars

\* the request of p is a cancel that has its answer
CancelDone(p) ==
  reqs[p].pc = "done" /\ reqs[p].op \in {"cancelBooking", "cancelMeeting"}

\* C36: when the cancels of two clients interleave, a step removes at most one
\* booking (of a car or of a room), the step that removes it is the delete of a
\* request for its id that is answered 200, and no two requests for the same
\* booking are both answered 200
C36_OneCancelWins ==
  [][ /\ \A b \in bookings \ bookings' :
           /\ bookings \ bookings' = {b}
           /\ \E p \in Procs : /\ reqs[p].pc = "delete" /\ reqs[p].req.id = b.id
                                /\ reqs'[p].pc = "done" /\ reqs'[p].resp = "200"
      /\ \A m \in meeting_bookings \ meeting_bookings' :
           /\ meeting_bookings \ meeting_bookings' = {m}
           /\ \E p \in Procs : /\ reqs[p].pc = "deleteMeeting" /\ reqs[p].req.id = m.id
                                /\ reqs'[p].pc = "done" /\ reqs'[p].resp = "200"
      /\ (\A p, q \in Procs :
            (/\ p # q
             /\ CancelDone(p) /\ CancelDone(q)
             /\ reqs[p].op = reqs[q].op
             /\ reqs[p].req.id = reqs[q].req.id)
              => ~(reqs[p].resp = "200" /\ reqs[q].resp = "200"))'
    ]_vars

\* two cancels of the same booking both fetched it before either deleted; one
\* was answered 200 and the other 500
C36_Witness ==
  \E p, q \in Procs :
     /\ CancelDone(p) /\ CancelDone(q)
     /\ reqs[p].op = "cancelBooking" /\ reqs[q].op = "cancelBooking"
     /\ reqs[p].req.id = reqs[q].req.id
     /\ reqs[p].resp = "200"
     /\ reqs[q].resp = "500 delete"

\* the response of the cancel r run in this state, and the bookings it leaves
CancelOutcome(r) ==
  LET after == Run(BeginCancelBooking(State, 1, r), 1)
  IN  <<after.reqs[1].resp, after.bookings>>

CancelMeetingOutcome(r) ==
  LET after == Run(BeginCancelMeeting(State, 1, r), 1)
  IN  <<after.reqs[1].resp, after.meeting_bookings>>

\* C37: in every state, two cancels (of a car booking or of a room booking)
\* that differ only in the organization of the caller's token have the same
\* response and leave the same bookings
C37_CancelIgnoresCallerOrg ==
  \A r \in CrossCancelReqs, o \in Orgs :
     r.auth = "bearer" =>
       LET r2 == [r EXCEPT !.token.orgId = o]
       IN  /\ CancelOutcome(r) = CancelOutcome(r2)
           /\ CancelMeetingOutcome(r) = CancelMeetingOutcome(r2)

\* the admin of organization 2 has cancelled a booking that a member of
\* organization 1 made for organization 1
C37_Witness ==
  /\ reqs[1].op = "cancelBooking"
  /\ Resp = "200"
  /\ reqs[1].req.token = Admin2
  /\ reqs[1].body[1].org_id = 1
  /\ reqs[1].body[1].user_id = 1

\* the response a create ended with in the state after, and the booking it
\* stored without its owning user
CreateOutcome(after) ==
  <<after.reqs[1].resp,
    { [b EXCEPT !.user_id = NULL] : b \in after.bookings \ bookings }>>

\* C38: in every state, a create has the same response with any caller
\* identity as with none, and stores the same booking but for its owning user:
\* the organization of the booking is the one in the request and its owning
\* user is the user of the verified token
C38_CreateIgnoresCallerOrg ==
  \A r0 \in { r \in CrossBookingReqs : r.auth = "none" } :
     LET anonymous == CreateOutcome(Run(BeginCreateBooking(State, 1, r0), 1))
     IN  \A h \in CrossHeaders :
            LET r == WithHeader(r0, h)
                after == Run(BeginCreateBooking(State, 1, r), 1)
            IN  /\ CreateOutcome(after) = anonymous
                /\ \A b \in after.bookings \ bookings :
                      /\ b.org_id = r.orgId
                      /\ b.user_id = (IF h[1] = "bearer" THEN h[2].userId ELSE NULL)

\* a member of organization 2 has just booked the car for organization 1
C38_Witness ==
  /\ reqs[1].op = "createBooking"
  /\ Resp = "201"
  /\ reqs[1].req.token = Member2
  /\ \E b \in bookings :
        b.id = nextBookingId - 1 /\ b.org_id = 1 /\ b.user_id = Member2.userId

\* the car is in the garage with one bound of its window set and the other not
HalfWindow(car) ==
  /\ car.status = "garage"
  /\ (car.unavailable_from = NULL) # (car.unavailable_until = NULL)

\* the availability query for the organization and the window of r, run in
\* this state, lists the pool car of r as not available
ReportedBlocked(r) ==
  LET body == Run(BeginAvailability(State, 1,
                    AvailabilityReq(r.orgId, r.start, r.end)), 1).reqs[1].body
  IN  \E i \in 1..Len(body) :
         body[i].type = "pool" /\ body[i].id = r.carId /\ ~body[i].available

\* C39: while a pool car is in the garage with only one bound of its window
\* set, every create with a valid window for that car is answered with the
\* garage conflict and every availability query reports the car as not
\* available, for every window and organization
C39_HalfWindowBlocksAlways ==
  \A c \in DOMAIN cars :
     HalfWindow(cars[c]) =>
       \A o \in Orgs, s \in Times, e \in Times :
          s < e =>
            LET r == BookingReq(o, s, e, <<c, NULL>>)
            IN  CreateResp(r) = "409 garage" /\ ReportedBlocked(r)

\* a setMaintenance has left the car in the garage with an end and no start
C39_Witness ==
  /\ reqs[1].op = "setMaintenance"
  /\ Resp = "200"
  /\ cars[1].status = "garage"
  /\ cars[1].unavailable_from = NULL
  /\ cars[1].unavailable_until # NULL

\* C40: in the versions that keep the bookings in an array, whatever the order
\* of the requests and the restarts, no two entries of the array are bookings
\* of the same car (and organization, where one is recorded) with intersecting
\* windows, and no two entries have the same id
C40_ArrayHasNoOverlapNoDuplicateId ==
  version \in OlderVersions =>
    \A i, j \in 1..Len(bookings) :
       i # j =>
         /\ bookings[i].id # bookings[j].id
         /\ (bookings[i].carId = bookings[j].carId /\ bookings[i].orgId = bookings[j].orgId)
              => ~Intersect(bookings[i].start, bookings[i].end,
                            bookings[j].start, bookings[j].end)

\* a create was answered 201 and the array holds two bookings of the same car
\* and organization, the second starting when the first ends
C40_Witness ==
  /\ version = "part_000"
  /\ reqs[1].op = "createBooking"
  /\ Resp = "201"
  /\ Len(bookings) = 2
  /\ bookings[1].carId = bookings[2].carId
  /\ bookings[1].orgId = bookings[2].orgId
  /\ bookings[1].end = bookings[2].start

====
